---- MODULE Spec2Model ----
(***************************************************************************)
(* A model of plum's cooperative event loop, its loop futures, the Task    *)
(* ticking protocol and the Process lifecycle state machine.               *)
(*                                                                         *)
(* The sequential code of a handler is written as an operator that takes   *)
(* a "world" record (all mutable objects) and returns the world after the  *)
(* call.  The field raised carries an exception that is propagating and    *)
(* the field ret the value a call returned.                                *)
(***************************************************************************)
EXTENDS Integers, Sequences, FiniteSets, TLC

(***************************************************************************)
(* Bounds                                                                  *)
(***************************************************************************)
NumTasks == 1
MaxSteps == 2
MaxWaits == 2

Tasks == 1..NumTasks

(***************************************************************************)
(* ProcessState labels and the user programs that are run.                 *)
(***************************************************************************)
ProcessState == {"CREATED", "RUNNING", "WAITING", "STOPPED", "FAILED"}

ProcessPrograms ==
    {"DummyProcess", "ProcessWithCheckpoint", "WaitForSignalProcess",
     "TwoCheckpoint", "TwoCheckpointNoFinish", "ExceptionProcess",
     "TwoCheckpointThenException"}

Programs == ProcessPrograms \cup {"PlainTask"}

\* The class of a task slot for which create_task was not called
NotCreated == "NotCreated"

AbortMsgs == {"user", "shutdown"}

\* What step() of a plain (non-Process) Task may do on one tick.
StepOutcomes == {"continue", "wait_ready", "wait_signal", "terminate", "raise"}

None == "None"
NoFut == <<0, 0>>
TaskFut(t) == <<t, 0>>
WaitFut(t, k) == <<t, k>>
FutIds == Tasks \X (0..MaxWaits)

NoRet == [type |-> "None", fut |-> NoFut, result |-> None]
WaitOnRet(f) == [type |-> "WaitOn", fut |-> f, result |-> None]
Terminated(r) == [type |-> "Terminated", fut |-> NoFut, result |-> r]
BoolRet(b) == [type |-> "bool", fut |-> NoFut, result |-> b]

VARIABLES
    prog,            \* the class of each task
    ticking,         \* loop: the ordered set of ticking tasks
    deferred,        \* loop: the call_soon queue
    inLoop,          \* loop: objects whose loop back-pointer is the loop
    phase,           \* loop: position inside tick()
    pending,         \* loop: callbacks of the drain that is in progress
    sweep,           \* loop: tasks of the ticking snapshot not yet ticked
    fut,             \* all loop futures (task futures and wait futures)
    task_future,     \* Task._future
    wait_on_future,  \* Task._wait_on_future
    pstate,          \* Process._state (the state object)
    nwaits,          \* number of WaitOn objects each task has constructed
    log,             \* per task: state labels entered and hooks delivered
    nsteps,          \* per task: number of step() invocations
    tickSteps,       \* per task: step() invocations in the current loop tick
    stepExc,         \* per task: the exception its step function raised
    calls,           \* per task: the abort() / future.cancel() calls made
    errors           \* exceptions that escaped to the caller of the loop

\* A loop Future driven directly by its owner
VARIABLES
    f_fut,           \* the Future object
    f_deferred,      \* its loop's call_soon queue
    f_ran,           \* the callbacks the loop has called, in order
    f_registered,    \* the callbacks passed to add_done_callback, in order
    f_scheduled,     \* the callbacks handed to call_soon, in order
    f_last           \* the last call made and what it returned or raised

loopVars == <<prog, ticking, deferred, inLoop, phase, pending, sweep, fut,
              task_future, wait_on_future, pstate, nwaits, log, nsteps,
              tickSteps, stepExc, calls, errors>>

futureVars == <<f_fut, f_deferred, f_ran, f_registered, f_scheduled, f_last>>

\* Event emitters and their listeners
VARIABLES
    e_specific,      \* per emitter: _specific_listeners (event -> listeners)
    e_wildcard,      \* per emitter: _wildcard_listeners (pattern -> listeners)
    e_regexs,        \* per emitter: _wildcard_regexs (pattern -> regex)
    e_children,      \* the aggregator's _children
    e_nlisten,       \* number of start_listening calls made by users
    e_last           \* the last event_occurred call and its outcome

eventVars == <<e_specific, e_wildcard, e_regexs, e_children, e_nlisten,
               e_last>>

\* A ProcessSpec under construction
VARIABLES
    ps_spec,         \* the ProcessSpec object
    ps_last          \* the last call made on it and what it returned or raised

specVars == <<ps_spec, ps_last>>

\* A process that is saved and re-created from the bundle
VARIABLES
    rl_w,            \* the original process (1) and the re-created one (2)
    rl_bundle,       \* the bundle the state of the original was saved to
    rl_saved,        \* what was saved: the state object, what saving raised,
                     \* and the length of the original's log at that time
    rl_loaded        \* whether load_state returned ("ok") or what it raised,
                     \* and the objects as they were when it returned

reloadVars == <<rl_w, rl_bundle, rl_saved, rl_loaded>>

earlyVars == <<loopVars, futureVars, eventVars, specVars, reloadVars>>

\* The directories of the pickle persistence and the processes it listens to
VARIABLES
    pp_fs,           \* the files: directory -> pid -> the pickled checkpoint
    pp_store,        \* adapter -> the store its three directories are in
    pp_proc,         \* pid -> the process: state, listeners, messages sent
    pp_last          \* the last persist_process call and what it raised

persistVars == <<pp_fs, pp_store, pp_proc, pp_last>>

\* A process and a wait on whose classes override the lifecycle hooks
VARIABLES
    hk_forgets,      \* the hooks whose override does not call the base
    hk_state,        \* the label of the state of the process
    hk_last          \* the last lifecycle step: the hooks it called, what
                     \* it raised, what it logged

hookVars == <<hk_forgets, hk_state, hk_last>>

\* The serial engines and the futures they return
VARIABLES
    en_run,          \* the run the serial engine is in the middle of
    en_fut,          \* the futures the engines have returned
    en_last          \* the last call on a future: what it returned or raised

engineVars == <<en_run, en_fut, en_last>>

\* Wait ons that wait for an event of an emitter
VARIABLES
    we_specific,     \* emitter -> event -> the set of its listeners
    we_wildcard,     \* emitter -> pattern -> the set of its listeners
    we_regexs,       \* emitter -> pattern -> compiled pattern
    we_waitons,      \* the WaitOnEvent objects made
    we_last          \* the last occurrence of an event: its deliveries,
                     \* what it raised, num_listening() before and after

waitEventVars == <<we_specific, we_wildcard, we_regexs, we_waitons, we_last>>

\* A WaitOn used by several threads
VARIABLES
    wt_outcome,      \* WaitOn._outcome
    wt_waiting,      \* WaitOn._waiting: the flag of the threading.Event
    wt_lock,         \* WaitOn._interrupt_lock: the thread that holds it
    wt_pc,           \* thread -> its position in wait, done or interrupt
    wt_obs           \* what the calls did and returned

waitVars == <<wt_outcome, wt_waiting, wt_lock, wt_pc, wt_obs>>

\* Emitters whose users start and stop listening, and an aggregator whose
\* child is added and removed
VARIABLES
    sb_specific,     \* emitter -> event -> the set of its listeners
    sb_wildcard,     \* emitter -> pattern -> the set of its listeners
    sb_regexs,       \* emitter -> pattern -> compiled pattern
    sb_children,     \* the aggregator's _children
    sb_removed,      \* the emitters remove_child was called for
    sb_calls,        \* the start_listening calls of users not undone by
                     \* a stop_listening call
    sb_last          \* the last occurrence of an event and its deliveries

subVars == <<sb_specific, sb_wildcard, sb_regexs, sb_children, sb_removed,
             sb_calls, sb_last>>

\* Tasks that the owner of the loop removes from it
VARIABLES
    rm_removed       \* task -> whether loop.remove(task) was called while
                     \* it was suspended, what the call raised, and the
                     \* errors seen before it

removeVars == <<rm_removed>>

\* A future of the process manager, used by threads
VARIABLES
    pf_terminated,   \* Future._terminated: the flag of the threading.Event
    pf_callbacks,    \* Future._callbacks
    pf_pc,           \* thread -> its position in add_done_callback or
                     \* _terminate
    pf_next,         \* the index of the for loop of _terminate
    pf_invoked,      \* callback -> the number of times it was called
    pf_process       \* the process: whether it has terminated, whether
                     \* the future listens to it, and whether the future
                     \* has its attribute _callbacks yet

pfutureVars == <<pf_terminated, pf_callbacks, pf_pc, pf_next, pf_invoked,
                 pf_process>>

\* A process manager, used by threads
VARIABLES
    pm_processes,    \* ProcessManager._processes: the pids it holds
    pm_plays,        \* pid -> how many calls of proc.play are submitted to
                     \* the executor and how many are running on a worker
    pm_pc,           \* calling thread -> its position in start, play or
                     \* play_all
    pm_calls         \* the number of calls made and the processes started

managerVars == <<pm_processes, pm_plays, pm_pc, pm_calls>>

\* A polling emitter and its timers
VARIABLES
    pe_listeners,    \* the subscriptions of the emitter
    pe_flags,        \* _stop, _polling and _timer
    pe_timers,       \* timer -> where it is in its life
    pe_log           \* what poll() was called with

pollVars == <<pe_listeners, pe_flags, pe_timers, pe_log>>

poolVars == <<managerVars, pollVars>>

threadVars == <<waitVars, subVars, removeVars, pfutureVars, poolVars>>


lateVars == <<persistVars, hookVars, engineVars, waitEventVars>>

notPersist == <<earlyVars, hookVars, engineVars, waitEventVars, threadVars>>

notHook == <<earlyVars, persistVars, engineVars, waitEventVars, threadVars>>

notEngine == <<earlyVars, persistVars, hookVars, waitEventVars, threadVars>>

notWaitEvent == <<earlyVars, persistVars, hookVars, engineVars, threadVars>>

notWait == <<earlyVars, lateVars, subVars, removeVars, pfutureVars, poolVars>>

notSub == <<earlyVars, lateVars, waitVars, removeVars, pfutureVars, poolVars>>

\* What a call of the owner of the loop on a task leaves alone
notLoop == <<futureVars, eventVars, specVars, reloadVars, lateVars, waitVars,
             subVars, pfutureVars, poolVars>>

notPFuture == <<earlyVars, lateVars, waitVars, subVars, removeVars, poolVars>>

notManager == <<earlyVars, lateVars, waitVars, subVars, removeVars,
                pfutureVars, pollVars>>

notPoll == <<earlyVars, lateVars, waitVars, subVars, removeVars,
             pfutureVars, managerVars>>

oldVars == <<loopVars, futureVars, eventVars, lateVars, threadVars>>

restVars == <<specVars, reloadVars, lateVars, threadVars>>

vars == <<loopVars, futureVars, eventVars, restVars>>

(***************************************************************************)
(* The world record                                                        *)
(***************************************************************************)
World ==
    [prog |-> prog, ticking |-> ticking, deferred |-> deferred,
     inLoop |-> inLoop, fut |-> fut, task_future |-> task_future,
     wait_on_future |-> wait_on_future, pstate |-> pstate,
     nwaits |-> nwaits, log |-> log, nsteps |-> nsteps,
     tickSteps |-> tickSteps, stepExc |-> stepExc,
     raised |-> None, ret |-> NoRet]

Raise(w, e) == [w EXCEPT !.raised = e]

\* The handler finished: store the world; an exception still propagating
\* reaches the caller of the loop.
Commit(w, t) ==
    /\ ticking' = w.ticking
    /\ deferred' = w.deferred
    /\ inLoop' = w.inLoop
    /\ fut' = w.fut
    /\ task_future' = w.task_future
    /\ wait_on_future' = w.wait_on_future
    /\ pstate' = w.pstate
    /\ nwaits' = w.nwaits
    /\ log' = w.log
    /\ nsteps' = w.nsteps
    /\ tickSteps' = w.tickSteps
    /\ stepExc' = w.stepExc
    /\ errors' = IF w.raised = None THEN errors
                 ELSE errors \cup {[task |-> t, exc |-> w.raised]}
    /\ prog' = prog

SeqRemoveAll(s, x) == SelectSeq(s, LAMBDA y : y # x)

InSeq(s, x) == \E i \in 1..Len(s) : s[i] = x

RECURSIVE SeqRemoveFirst(_, _)
SeqRemoveFirst(s, x) ==
    IF s = <<>> THEN <<>>
    ELSE IF Head(s) = x THEN Tail(s)
    ELSE <<Head(s)>> \o SeqRemoveFirst(Tail(s), x)

(***************************************************************************)
(* Event loop                                                              *)
(***************************************************************************)
call_soon(w, cb, f) ==
    [w EXCEPT !.deferred = Append(@, [cb |-> cb, fut |-> f])]

start_ticking(w, t) ==
    IF InSeq(w.ticking, t) THEN w
    ELSE [w EXCEPT !.ticking = Append(@, t)]

stop_ticking(w, t) ==
    [w EXCEPT !.ticking = SeqRemoveAll(@, t)]

(***************************************************************************)
(* Loop futures                                                            *)
(***************************************************************************)
NewFuture(st, kind) ==
    [state |-> st, result |-> None, exception |-> None,
     callbacks |-> <<>>, kind |-> kind]

done(w, f) == w.fut[f].state # "PENDING"

cancelled(w, f) == w.fut[f].state = "CANCELLED"

\* Variant: the callbacks are scheduled and kept
_schedule_callbacks_KeepsCallbacks(w, f) ==
    LET callbacks == w.fut[f].callbacks IN
    IF callbacks = <<>> THEN w
    ELSE [w EXCEPT
            !.deferred = @ \o [i \in 1..Len(callbacks) |->
                                 [cb |-> callbacks[i], fut |-> f]]]

_schedule_callbacks(w, f) ==
    LET callbacks == w.fut[f].callbacks IN
    IF callbacks = <<>> THEN w
    ELSE [w EXCEPT
            !.fut[f].callbacks = <<>>,
            !.deferred = @ \o [i \in 1..Len(callbacks) |->
                                 [cb |-> callbacks[i], fut |-> f]]]

\* Variant: cancel() cancels a future whatever its state
cancel_AnyState(w, f) ==
    [_schedule_callbacks([w EXCEPT !.fut[f].state = "CANCELLED"], f)
        EXCEPT !.ret = BoolRet(TRUE)]

cancel(w, f) ==
    IF w.fut[f].state = "PENDING"
    THEN [_schedule_callbacks([w EXCEPT !.fut[f].state = "CANCELLED"], f)
            EXCEPT !.ret = BoolRet(TRUE)]
    ELSE [w EXCEPT !.ret = BoolRet(FALSE)]

set_result(w, f, result) ==
    IF w.fut[f].state # "PENDING" THEN Raise(w, "InvalidStateError")
    ELSE _schedule_callbacks(
            [w EXCEPT !.fut[f].state = "FINISHED",
                      !.fut[f].result = result], f)

set_exception(w, f, exception) ==
    IF w.fut[f].state # "PENDING" THEN Raise(w, "InvalidStateError")
    ELSE _schedule_callbacks(
            [w EXCEPT !.fut[f].state = "FINISHED",
                      !.fut[f].exception = exception], f)

\* Variant: a callback added to a future that is already done is forgotten
add_done_callback_ForgetsWhenDone(w, f, fn) ==
    IF done(w, f) THEN w
    ELSE [w EXCEPT !.fut[f].callbacks = Append(@, fn)]

\* Variant: a callback added to a future that is already done is called
\* at once
add_done_callback_CallsAtOnce(w, f, fn) ==
    IF done(w, f) THEN [w EXCEPT !.ran = Append(@, fn)]
    ELSE [w EXCEPT !.fut[f].callbacks = Append(@, fn)]

add_done_callback(w, f, fn) ==
    IF done(w, f) THEN call_soon(w, fn, f)
    ELSE [w EXCEPT !.fut[f].callbacks = Append(@, fn)]

remove_done_callback(w, f, fn) ==
    IF InSeq(w.fut[f].callbacks, fn)
    THEN [w EXCEPT !.fut[f].callbacks = SeqRemoveFirst(@, fn)]
    ELSE Raise(w, "ValueError")

(***************************************************************************)
(* LoopObject / Ticking / Task: removal from the loop                      *)
(***************************************************************************)
Task_wait_on_future_cb(t) ==
    [fn |-> "_wait_on_future_cb", task |-> t, callback |-> None,
     wait_on |-> NoFut]

\* Task.on_loop_removed -> Ticking.on_loop_removed -> LoopObject.on_loop_removed
on_loop_removed(w, t) ==
    IF t \notin w.inLoop
    THEN \* self.loop() is None: None.stop_ticking
         Raise(w, "AttributeError")
    ELSE LET w1 == stop_ticking(w, t)
             w2 == [w1 EXCEPT !.inLoop = @ \ {t},
                              !.task_future[t] = NoFut]
         IN IF w2.wait_on_future[t] # NoFut
            THEN LET w3 == remove_done_callback(w2, w2.wait_on_future[t],
                                                Task_wait_on_future_cb(t))
                 IN IF w3.raised # None THEN w3
                    ELSE [w3 EXCEPT !.wait_on_future[t] = NoFut]
            ELSE w2

\* loop.remove(obj)
remove(w, t) == on_loop_removed(w, t)

(***************************************************************************)
(* WaitOn objects: Checkpoint is ready at once, WaitForSignal is ready     *)
(* after continue_().  A WaitOn has one future.                            *)
(***************************************************************************)
NewWaitOn(w, t, kind) ==
    LET k == w.nwaits[t] + 1 IN
    [w EXCEPT !.nwaits[t] = k,
              !.fut[WaitFut(t, k)] =
                  NewFuture(IF kind = "checkpoint" THEN "FINISHED"
                            ELSE "PENDING", kind)]

LastWaitOn(w, t) == WaitFut(t, w.nwaits[t])

(***************************************************************************)
(* Process: hooks and state objects                                        *)
(***************************************************************************)
\* The value of an attribute that was never assigned
Unset == <<0, -1>>

StateObj(label) ==
    [label |-> label, exec_func |-> None, args |-> NoFut, wait_on |-> NoFut,
     callback |-> None, future |-> NoFut, abort |-> FALSE,
     abort_msg |-> None, exc_info |-> None]

Created == StateObj("CREATED")

Running(exec_func, args) ==
    [StateObj("RUNNING") EXCEPT !.exec_func = exec_func, !.args = args]

Waiting(wait_on, callback) ==
    [StateObj("WAITING") EXCEPT !.wait_on = wait_on, !.callback = callback]

Stopped(abort, abort_msg) ==
    [StateObj("STOPPED") EXCEPT !.abort = abort, !.abort_msg = abort_msg]

Failed(exc_info) == [StateObj("FAILED") EXCEPT !.exc_info = exc_info]

\* Process._on_<name>: the hook is delivered
hook(w, t, name) == [w EXCEPT !.log[t] = Append(@, name)]

\* Variant: entering RUNNING from WAITING does not deliver on_resume
Running_enter_NoResume(w, t, previous_state) ==
    IF previous_state = "CREATED"
    THEN hook(hook(w, t, "on_start"), t, "on_run")
    ELSE IF previous_state \in {"WAITING", "RUNNING"}
    THEN hook(w, t, "on_run")
    ELSE Raise(w, "RuntimeError")

\* Variant: RUNNING can be entered from any state
Running_enter_AcceptsAny(w, t, previous_state) ==
    IF previous_state = "CREATED"
    THEN hook(hook(w, t, "on_start"), t, "on_run")
    ELSE IF previous_state = "WAITING"
    THEN hook(hook(w, t, "on_resume"), t, "on_run")
    ELSE hook(w, t, "on_run")

Running_enter(w, t, previous_state) ==
    IF previous_state = "CREATED"
    THEN hook(hook(w, t, "on_start"), t, "on_run")
    ELSE IF previous_state = "WAITING"
    THEN hook(hook(w, t, "on_resume"), t, "on_run")
    ELSE IF previous_state = "RUNNING"
    THEN hook(w, t, "on_run")
    ELSE Raise(w, "RuntimeError")

Waiting_enter(w, t, previous_state) == hook(w, t, "on_wait")

Stopped_enter(w, t, previous_state) ==
    IF w.pstate[t].abort
    THEN hook(hook(w, t, "on_abort"), t, "on_stop")
    ELSE IF previous_state = "RUNNING"
    THEN hook(hook(w, t, "on_finish"), t, "on_stop")
    ELSE Raise(w, "RuntimeError")

Failed_enter(w, t, previous_state) == hook(w, t, "on_fail")

enter(w, t, previous_state) ==
    CASE w.pstate[t].label = "RUNNING" -> Running_enter(w, t, previous_state)
      [] w.pstate[t].label = "WAITING" -> Waiting_enter(w, t, previous_state)
      [] w.pstate[t].label = "STOPPED" -> Stopped_enter(w, t, previous_state)
      [] w.pstate[t].label = "FAILED" -> Failed_enter(w, t, previous_state)
      [] OTHER -> hook(w, t, "on_create")

\* Process._set_state: exit the old state, install the new one, enter it
_set_state(w, t, state) ==
    LET previous_state == w.pstate[t].label
        w1 == [w EXCEPT !.pstate[t] = state,
                        !.log[t] = Append(@, state.label)]
    IN enter(w1, t, previous_state)

\* Process._terminate
_terminate(w, t) == hook(w, t, "on_destroy")

(***************************************************************************)
(* The user's step functions                                               *)
(***************************************************************************)
Return == [kind |-> "return", wait |-> None, callback |-> None]
Wait(kind, callback) == [kind |-> "wait", wait |-> kind, callback |-> callback]
Throw == [kind |-> "raise", wait |-> None, callback |-> None]

UserFunc(p, exec_func) ==
    CASE p = "DummyProcess" -> Return
      [] p = "ProcessWithCheckpoint" ->
            IF exec_func = "do_run" THEN Wait("checkpoint", "finish")
            ELSE Return
      [] p = "WaitForSignalProcess" ->
            IF exec_func = "do_run" THEN Wait("signal", "finish")
            ELSE Return
      [] p \in {"TwoCheckpoint", "TwoCheckpointThenException"} ->
            IF exec_func = "do_run" THEN Wait("checkpoint", "middle_step")
            ELSE IF exec_func = "middle_step" THEN Wait("checkpoint", "finish")
            ELSE IF p = "TwoCheckpoint" THEN Return ELSE Throw
      [] p = "TwoCheckpointNoFinish" ->
            IF exec_func = "do_run" THEN Wait("checkpoint", "middle_step")
            ELSE Wait("checkpoint", None)
      [] p = "ExceptionProcess" -> Throw
      [] p = "WaitForEventProcess" ->
            IF exec_func = "do_run" THEN Wait("event", "finish")
            ELSE Return
      [] OTHER -> Return

UserException == "RuntimeError(Great scott!)"
Outputs == "outputs"

(***************************************************************************)
(* State.execute for each state                                            *)
(***************************************************************************)
Waiting_wait_on_done(t, st) ==
    [fn |-> "_wait_on_done", task |-> t, callback |-> st.callback,
     wait_on |-> st.wait_on]

Created_execute(w, t) == _set_state(w, t, Running("do_run", NoFut))

\* Variant: an exception of the step function is taken for a normal return
Running_execute_SwallowsException(w, t) ==
    LET retval == UserFunc(w.prog[t], w.pstate[t].exec_func) IN
    IF w.pstate[t].args = Unset THEN Raise(w, "AttributeError")
    ELSE IF retval.kind = "wait"
    THEN LET w1 == NewWaitOn(w, t, retval.wait) IN
         _set_state(w1, t, Waiting(LastWaitOn(w1, t), retval.callback))
    ELSE _set_state(w, t, Stopped(FALSE, None))

\* retval = self._exec_func(*self._args, **self._kwargs)
Running_execute(w, t) ==
    LET retval == UserFunc(w.prog[t], w.pstate[t].exec_func) IN
    IF w.pstate[t].args = Unset THEN Raise(w, "AttributeError")
    ELSE IF retval.kind = "raise"
    THEN Raise([w EXCEPT !.stepExc[t] = UserException], UserException)
    ELSE IF retval.kind = "wait"
    THEN LET w1 == NewWaitOn(w, t, retval.wait) IN
         _set_state(w1, t, Waiting(LastWaitOn(w1, t), retval.callback))
    ELSE _set_state(w, t, Stopped(FALSE, None))

Waiting_execute(w, t) ==
    LET st == w.pstate[t]
        w1 == IF st.future = NoFut
              THEN add_done_callback(
                      [w EXCEPT !.pstate[t].future = st.wait_on],
                      st.wait_on, Waiting_wait_on_done(t, st))
              ELSE w
    IN [w1 EXCEPT !.ret = WaitOnRet(st.wait_on)]

Stopped_execute(w, t) ==
    [_terminate(w, t) EXCEPT !.ret = Terminated(Outputs)]

Failed_execute(w, t) ==
    [_terminate(w, t) EXCEPT !.ret = Terminated(w.pstate[t].exc_info)]

execute(w, t) ==
    CASE w.pstate[t].label = "CREATED" -> Created_execute(w, t)
      [] w.pstate[t].label = "RUNNING" -> Running_execute(w, t)
      [] w.pstate[t].label = "WAITING" -> Waiting_execute(w, t)
      [] w.pstate[t].label = "STOPPED" -> Stopped_execute(w, t)
      [] OTHER -> Failed_execute(w, t)

\* Waiting._wait_on_done: the done-callback of the wait's future, a bound
\* method of the Waiting state object that registered it
_wait_on_done(w, cb) ==
    LET t == cb.task IN
    IF cb.callback = None
    THEN _set_state(w, t, Stopped(FALSE, None))
    ELSE _set_state(w, t, Running(cb.callback, cb.wait_on))

\* Process.step: run the current state; any exception moves the process
\* to FAILED
Process_step(w, t) ==
    LET w1 == execute(w, t) IN
    IF w1.raised # None
    THEN [_set_state([w1 EXCEPT !.raised = None], t, Failed(w1.raised))
            EXCEPT !.ret = NoRet]
    ELSE w1

\* Process.abort
abort(w, t, msg) ==
    LET st == w.pstate[t]
        w1 == IF st.label = "WAITING" /\ st.future # NoFut
              THEN cancel(w, st.future) ELSE w
    IN _set_state(w1, t, Stopped(TRUE, msg))

(***************************************************************************)
(* Task                                                                    *)
(***************************************************************************)
TaskException == "TaskError"
TaskResult == "task result"

\* step() of a plain Task: what it does is chosen by the caller of the model
PlainTask_step(w, t, o) ==
    CASE o = "continue" -> w
      [] o = "wait_ready" ->
            LET w1 == NewWaitOn(w, t, "checkpoint") IN
            [w1 EXCEPT !.ret = WaitOnRet(LastWaitOn(w1, t))]
      [] o = "wait_signal" ->
            LET w1 == NewWaitOn(w, t, "signal") IN
            [w1 EXCEPT !.ret = WaitOnRet(LastWaitOn(w1, t))]
      [] o = "terminate" -> [w EXCEPT !.ret = Terminated(TaskResult)]
      [] OTHER -> Raise([w EXCEPT !.stepExc[t] = TaskException],
                        TaskException)

step(w, t, o) ==
    LET w1 == [w EXCEPT !.nsteps[t] = @ + 1, !.tickSteps[t] = @ + 1] IN
    IF w.prog[t] = "PlainTask" THEN PlainTask_step(w1, t, o)
    ELSE Process_step(w1, t)

\* Variant: a task whose step returned a WaitOn keeps ticking
tick_KeepsTicking(w, t, o) ==
    IF w.task_future[t] = NoFut
    THEN Raise(w, "AttributeError")
    ELSE IF cancelled(w, w.task_future[t])
    THEN Raise(w, "TypeError")
    ELSE
    LET w1 == step(w, t, o) IN
    IF w1.raised # None
    THEN LET e == w1.raised
             w2 == remove([w1 EXCEPT !.raised = None], t)
         IN IF w2.raised # None THEN w2
            ELSE IF w2.task_future[t] = NoFut
            THEN Raise(w2, "AttributeError")
            ELSE set_exception(w2, w2.task_future[t], e)
    ELSE
    LET result == w1.ret
        w2 == IF result.type = "WaitOn"
              THEN add_done_callback(
                     [w1 EXCEPT !.wait_on_future[t] = result.fut],
                     result.fut, Task_wait_on_future_cb(t))
              ELSE w1
    IN IF result.type = "Terminated"
       THEN LET w3 == set_result(w2, w2.task_future[t], result.result) IN
            IF w3.raised # None THEN w3 ELSE remove(w3, t)
       ELSE w2

\* Task.tick
tick(w, t, o) ==
    IF w.task_future[t] = NoFut
    THEN Raise(w, "AttributeError")
    ELSE IF cancelled(w, w.task_future[t])
    THEN \* self.loop().remove() is called without its argument
         Raise(w, "TypeError")
    ELSE
    LET w1 == step(w, t, o) IN
    IF w1.raised # None
    THEN LET e == w1.raised
             w2 == remove([w1 EXCEPT !.raised = None], t)
         IN IF w2.raised # None THEN w2
            ELSE IF w2.task_future[t] = NoFut
            THEN \* self.future() is None after the removal
                 Raise(w2, "AttributeError")
            ELSE set_exception(w2, w2.task_future[t], e)
    ELSE
    LET result == w1.ret
        w2 == IF result.type = "WaitOn"
              THEN stop_ticking(
                     add_done_callback(
                       [w1 EXCEPT !.wait_on_future[t] = result.fut],
                       result.fut, Task_wait_on_future_cb(t)), t)
              ELSE w1
    IN IF result.type = "Terminated"
       THEN LET w3 == set_result(w2, w2.task_future[t], result.result) IN
            IF w3.raised # None THEN w3 ELSE remove(w3, t)
       ELSE w2

\* Task._wait_on_future_cb
_wait_on_future_cb(w, t) ==
    IF t \notin w.inLoop THEN Raise(w, "AttributeError")
    ELSE [start_ticking(w, t) EXCEPT !.wait_on_future[t] = NoFut]

\* The outcomes step() of task t may have on its next invocation
OutcomesOf(t) ==
    IF prog[t] # "PlainTask" THEN {"continue"}
    ELSE IF nsteps[t] >= MaxSteps THEN {"terminate", "raise"}
    ELSE IF nwaits[t] >= MaxWaits THEN {"continue", "terminate", "raise"}
    ELSE StepOutcomes

\* What the owner of the loop has called on a task: the state abort() found
\* the process in, its message, the wait future the process held then,
\* whether a whole loop tick has run since, and whether the task's future
\* was cancelled
NoCalls ==
    [aborted_in |-> None, abort_msg |-> None, held |-> NoFut,
     ticked |-> FALSE, cancelled |-> FALSE]

interfered(t) == calls[t].aborted_in # None \/ calls[t].cancelled

(***************************************************************************)
(* Event strings.  An event string is a sequence of characters; the words  *)
(* "process", "on_start", ... stand for runs of letters, which a regular   *)
(* expression takes literally.                                             *)
(***************************************************************************)
MaxListens == 2

Pids == {<<"1">>, <<"1", "5">>, <<"1", ".", "5">>}

EventNames == {"on_start", "on_stop"}

\* WithProcessEvents.process_event_occurred: "process.{}.{}".format(pid, event)
ProcessEvent(pid, name) == <<"process", ".">> \o pid \o <<".", name>>

\* The pattern process.<pid>.*
PidPattern(pid) == ProcessEvent(pid, "*")

Events == {ProcessEvent(pid, name) : pid \in Pids, name \in EventNames}

Patterns == {PidPattern(pid) : pid \in Pids}

\* The events and patterns that users listen for
SubKeys == Patterns \cup {ProcessEvent(<<"1">>, "on_start")}

contains_wildcard(eventstring) ==
    \E i \in 1..Len(eventstring) : eventstring[i] \in {"*", "#"}

\* event.replace('.', '\.').replace('*', '.*').replace('#', '.+'), compiled:
\* one item per character of the event string
re_compile(event) ==
    [i \in 1..Len(event) |->
        IF event[i] = "*" THEN [any |-> TRUE, min |-> 0, ch |-> None]
        ELSE IF event[i] = "#" THEN [any |-> TRUE, min |-> 1, ch |-> None]
        ELSE [any |-> FALSE, min |-> 1, ch |-> event[i]]]

\* regex.match(string) is not None: the regex matches a prefix of the string
RECURSIVE re_match(_, _)
re_match(regex, string) ==
    IF regex = <<>> THEN TRUE
    ELSE IF Head(regex).any
    THEN \E k \in Head(regex).min..Len(string) :
            re_match(Tail(regex), SubSeq(string, k + 1, Len(string)))
    ELSE /\ string # <<>>
         /\ Head(string) = Head(regex).ch
         /\ re_match(Tail(regex), Tail(string))

(***************************************************************************)
(* Emitters, listeners and Python dicts                                    *)
(***************************************************************************)
Aggregator == "agg"
Emitters == {Aggregator, "child"}

UserListeners == {"L1", "L2"}
EventPassthrough == "agg._event_passthrough"
AggEventOccurred == "agg.event_occurred"
Listeners == UserListeners \cup {EventPassthrough, AggEventOccurred}

\* The WaitOnEvent objects; each listens with its method event_occurred
WaitOnEvents == {"W1", "W2"}

\* emitter.stop_listening(self._event): the event string of the wait on is
\* passed as the listener, and no listener is a string
EventAsListener == "self._event"

NotMade == [event |-> <<>>, received |-> <<>>, outcome |-> None, ndone |-> 0,
            ncalls |-> 0]

NoWaitOnEvents == [wo \in WaitOnEvents |-> NotMade]

\* stop_listening(listener, event=None): the event argument left out
AllEvents == <<>>

DictSet(d, k, v) == [x \in DOMAIN d \cup {k} |-> IF x = k THEN v ELSE d[x]]
DictDel(d, k) == [x \in DOMAIN d \ {k} |-> d[x]]
EmptyDict == [x \in {} |-> {}]

\* What the listeners do when called: every listener records the event,
\* except that one of them (the actor) may have a wrong signature, raise,
\* or, the first time it is called, make a listener start or stop listening
\* for something at the emitter that called it
Quiet == [actor |-> None, do |-> "ok", listener |-> None, event |-> <<>>]

Scripts ==
    {Quiet}
    \cup {[actor |-> a, do |-> d, listener |-> None, event |-> <<>>] :
            a \in UserListeners, d \in {"raise", "badsig"}}
    \cup {[actor |-> a, do |-> d, listener |-> l, event |-> k] :
            a \in UserListeners, l \in UserListeners,
            d \in {"start_listening", "stop_listening"}, k \in SubKeys}

\* The iteration order of a dict or a set: an order of its elements or the
\* reverse of it
PatternOrder ==
    <<PidPattern(<<"1">>), PidPattern(<<"1", "5">>),
      PidPattern(<<"1", ".", "5">>),
      <<"process", ".", "*", ".", "finish">>>>

ListenerOrder == <<"L1", "L2", EventPassthrough, AggEventOccurred>>

WaitOnOrder == <<"W1", "W2">>

Orders == [patterns : BOOLEAN, listeners : BOOLEAN]

AnyOrder == [patterns |-> FALSE, listeners |-> FALSE]

Reverse(seq) == [i \in 1..Len(seq) |-> seq[Len(seq) + 1 - i]]

Ordered(order, set, reversed) ==
    LET seq == SelectSeq(order, LAMBDA x : x \in set) IN
    IF reversed THEN Reverse(seq) ELSE seq

EventWorld(script, order) ==
    [specific |-> e_specific, wildcard |-> e_wildcard, regexs |-> e_regexs,
     children |-> e_children, nlisten |-> e_nlisten, delivered |-> <<>>,
     script |-> script, order |-> order, raised |-> None]

(***************************************************************************)
(* EventEmitter                                                            *)
(***************************************************************************)
_add_wildcard_listener(w, em, listener, event) ==
    IF event \in DOMAIN w.wildcard[em]
    THEN [w EXCEPT !.wildcard[em][event] = @ \cup {listener}]
    ELSE [w EXCEPT !.wildcard[em] = DictSet(@, event, {listener}),
                   !.regexs[em] = DictSet(@, event, re_compile(event))]

_remove_wildcard_listener(w, em, listener, event) ==
    IF event \notin DOMAIN w.wildcard[em] THEN Raise(w, "KeyError")
    ELSE IF w.wildcard[em][event] \ {listener} # {}
    THEN [w EXCEPT !.wildcard[em][event] = @ \ {listener}]
    ELSE IF event \notin DOMAIN w.regexs[em]
    THEN Raise([w EXCEPT !.wildcard[em] = DictDel(@, event)], "KeyError")
    ELSE [w EXCEPT !.wildcard[em] = DictDel(@, event),
                   !.regexs[em] = DictDel(@, event)]

_add_specific_listener(w, em, listener, event) ==
    IF event \in DOMAIN w.specific[em]
    THEN [w EXCEPT !.specific[em][event] = @ \cup {listener}]
    ELSE [w EXCEPT !.specific[em] = DictSet(@, event, {listener})]

_remove_specific_listener(w, em, listener, event) ==
    IF event \notin DOMAIN w.specific[em] THEN Raise(w, "KeyError")
    ELSE IF w.specific[em][event] \ {listener} # {}
    THEN [w EXCEPT !.specific[em][event] = @ \ {listener}]
    ELSE [w EXCEPT !.specific[em] = DictDel(@, event)]

_wildcard_match(w, em, wildcard_string, to_match) ==
    re_match(w.regexs[em][wildcard_string], to_match)

EventEmitter_start_listening(w, em, listener, event) ==
    IF contains_wildcard(event)
    THEN _add_wildcard_listener(w, em, listener, event)
    ELSE _add_specific_listener(w, em, listener, event)

\* for e in items(): _remove_..._listener(listener, e), over a snapshot of
\* the keys of a dict
RECURSIVE RemoveFromAll(_, _, _, _, _)
RemoveFromAll(w, em, listener, keys, wildcard) ==
    IF keys = {} \/ w.raised # None THEN w
    ELSE LET e == CHOOSE k \in keys : TRUE
             w1 == IF wildcard
                   THEN _remove_wildcard_listener(w, em, listener, e)
                   ELSE _remove_specific_listener(w, em, listener, e)
         IN RemoveFromAll(w1, em, listener, keys \ {e}, wildcard)

EventEmitter_stop_listening(w, em, listener, event) ==
    IF event = AllEvents
    THEN LET w1 == RemoveFromAll(w, em, listener,
                                 DOMAIN w.specific[em], FALSE)
         IN IF w1.raised # None THEN w1
            ELSE RemoveFromAll(w1, em, listener,
                               DOMAIN w1.wildcard[em], TRUE)
    ELSE LET w1 == IF contains_wildcard(event)
                   THEN _remove_wildcard_listener(w, em, listener, event)
                   ELSE _remove_specific_listener(w, em, listener, event)
         IN IF w1.raised = "KeyError" THEN w ELSE w1

(***************************************************************************)
(* EmitterAggregator                                                       *)
(***************************************************************************)
\* for t in self._children: t.start_listening(listener, event)
RECURSIVE ChildrenStartListening(_, _, _, _)
ChildrenStartListening(w, children, listener, event) ==
    IF children = <<>> \/ w.raised # None THEN w
    ELSE ChildrenStartListening(
            EventEmitter_start_listening(w, Head(children), listener, event),
            Tail(children), listener, event)

EmitterAggregator_start_listening(w, listener, event) ==
    LET w1 == EventEmitter_start_listening(w, Aggregator, listener, event)
    IN ChildrenStartListening(w1, w1.children, EventPassthrough, event)

\* for event in events: for child in self._children:
\*     child.stop_listening(listener, event)
RECURSIVE ChildrenStopListening(_, _, _, _)
ChildrenStopListening(w, children, listener, events) ==
    IF events = {} \/ w.raised # None THEN w
    ELSE IF children = <<>>
    THEN ChildrenStopListening(w, w.children, listener,
                               events \ {CHOOSE e \in events : TRUE})
    ELSE ChildrenStopListening(
            EventEmitter_stop_listening(w, Head(children), listener,
                                        CHOOSE e \in events : TRUE),
            Tail(children), listener, events)

EmitterAggregator_stop_listening(w, listener, event) ==
    LET specific == DOMAIN w.specific[Aggregator]
        wildcard == DOMAIN w.wildcard[Aggregator]
        w1 == EventEmitter_stop_listening(w, Aggregator, listener, event)
        gone == (specific \ DOMAIN w1.specific[Aggregator])
                    \cup (wildcard \ DOMAIN w1.wildcard[Aggregator])
    IN IF w1.raised # None \/ w1.children = <<>> THEN w1
       ELSE ChildrenStopListening(w1, w1.children, EventPassthrough, gone)

\* for e in keys: child.start_listening(self.event_occurred, e)
RECURSIVE ChildStartListeningAll(_, _, _)
ChildStartListeningAll(w, child, keys) ==
    IF keys = {} \/ w.raised # None THEN w
    ELSE LET e == CHOOSE k \in keys : TRUE IN
         ChildStartListeningAll(
            EventEmitter_start_listening(w, child, AggEventOccurred, e),
            child, keys \ {e})

add_child(w, child) ==
    LET w1 == [w EXCEPT !.children = Append(@, child)]
        w2 == ChildStartListeningAll(w1, child,
                                     DOMAIN w1.specific[Aggregator])
    IN ChildStartListeningAll(w2, child, DOMAIN w2.wildcard[Aggregator])

start_listening(w, em, listener, event) ==
    IF em = Aggregator
    THEN EmitterAggregator_start_listening(w, listener, event)
    ELSE EventEmitter_start_listening(w, em, listener, event)

stop_listening(w, em, listener, event) ==
    IF em = Aggregator
    THEN EmitterAggregator_stop_listening(w, listener, event)
    ELSE EventEmitter_stop_listening(w, em, listener, event)

(***************************************************************************)
(* Delivery                                                                *)
(***************************************************************************)
Delivered(w, em, listener, event) ==
    [w EXCEPT !.delivered =
        Append(@, [listener |-> listener, emitter |-> em, event |-> event])]

\* A user's listener is called with (emitter, event, body)
Listener_call(w, em, listener, event) ==
    IF \/ w.script.actor # listener
       \/ \E i \in 1..Len(w.delivered) : w.delivered[i].listener = listener
    THEN Delivered(w, em, listener, event)
    ELSE CASE w.script.do = "badsig" -> Raise(w, "TypeError")
           [] w.script.do = "raise" ->
                 Raise(Delivered(w, em, listener, event), "ListenerError")
           [] w.script.do = "start_listening" ->
                 start_listening(
                    [Delivered(w, em, listener, event)
                        EXCEPT !.nlisten = @ + 1],
                    em, w.script.listener, w.script.event)
           [] OTHER ->
                 stop_listening(Delivered(w, em, listener, event), em,
                                w.script.listener, w.script.event)

RECURSIVE event_occurred(_, _, _)
RECURSIVE deliver_msg(_, _, _, _)
RECURSIVE DeliverAll(_, _, _, _)
RECURSIVE WildcardLoop(_, _, _, _)

\* deliver_msg: listener(self, event, body)
deliver_msg(w, em, listener, event) ==
    IF listener = EventPassthrough
    THEN \* EmitterAggregator._event_passthrough(emitter, event, body)
         event_occurred(w, Aggregator, event)
    ELSE IF listener = AggEventOccurred
    THEN \* event_occurred(self, event, body=None) called with one
         \* positional argument too many
         Raise(w, "TypeError")
    ELSE Listener_call(w, em, listener, event)

\* for l in ls: self.deliver_msg(l, event, body)
DeliverAll(w, em, ls, event) ==
    IF ls = <<>> \/ w.raised # None THEN w
    ELSE DeliverAll(deliver_msg(w, em, Head(ls), event), em, Tail(ls), event)

\* for e, ls in self._wildcard_listeners.items(): items is the list of the
\* keys the dict had when the loop began; ls is the set object of key e,
\* which is empty once its key has been deleted
WildcardLoop(w, em, items, event) ==
    IF items = <<>> \/ w.raised # None THEN w
    ELSE IF Head(items) \notin DOMAIN w.regexs[em] THEN Raise(w, "KeyError")
    ELSE IF _wildcard_match(w, em, Head(items), event)
    THEN LET ls == IF Head(items) \in DOMAIN w.wildcard[em]
                   THEN w.wildcard[em][Head(items)] ELSE {}
         IN WildcardLoop(
               DeliverAll(w, em,
                          Ordered(ListenerOrder, ls, w.order.listeners),
                          event),
               em, Tail(items), event)
    ELSE WildcardLoop(w, em, Tail(items), event)

event_occurred(w, em, event) ==
    LET w1 == WildcardLoop(w, em,
                           Ordered(PatternOrder, DOMAIN w.wildcard[em],
                                   w.order.patterns),
                           event)
    IN IF w1.raised # None \/ event \notin DOMAIN w1.specific[em] THEN w1
       ELSE LET w2 == DeliverAll(w1, em,
                                 Ordered(ListenerOrder, w1.specific[em][event],
                                         w1.order.listeners),
                                 event)
            IN IF w2.raised = "TypeError"
               THEN [w2 EXCEPT !.raised = "RuntimeError"]
               ELSE w2

NoEvent ==
    [emitter |-> None, event |-> <<>>, pid |-> <<>>, script |-> Quiet,
     delivered |-> <<>>, raised |-> None,
     specific |-> [em \in Emitters |-> EmptyDict],
     wildcard |-> [em \in Emitters |-> EmptyDict], children |-> <<>>]

EventStart ==
    /\ e_specific = [em \in Emitters |-> EmptyDict]
    /\ e_wildcard = [em \in Emitters |-> EmptyDict]
    /\ e_regexs = [em \in Emitters |-> EmptyDict]
    /\ e_children = <<>>
    /\ e_nlisten = 0
    /\ e_last = NoEvent

\* WaitOnEvent.__init__(emitter, event); the emitter is an EventEmitter
WaitOnEvent___init__(w, wo, em, event) ==
    EventEmitter_start_listening(
       [w EXCEPT !.waitons[wo] = [NotMade EXCEPT !.event = event]],
       em, wo, event)

\* WaitOn.done() of the wait on, counted
WaitOnEvent_done(w, wo) ==
    IF w.waitons[wo].outcome # None
    THEN Raise([w EXCEPT !.waitons[wo].ndone = @ + 1], "AssertionError")
    ELSE [w EXCEPT !.waitons[wo].ndone = @ + 1,
                   !.waitons[wo].outcome = "(True, None)"]

\* WaitOnEvent.event_occurred(emitter, event, body)
WaitOnEvent_event_occurred(w, wo, em, event) ==
    LET w1 == [Delivered(w, em, wo, event)
                  EXCEPT !.waitons[wo].received = event,
                         !.waitons[wo].ncalls = @ + 1]
        w2 == EventEmitter_stop_listening(w1, em, EventAsListener, AllEvents)
    IN IF w2.raised # None THEN w2 ELSE WaitOnEvent_done(w2, wo)

\* EventEmitter.event_occurred(event) of an emitter whose listeners are
\* wait ons: deliver_msg calls WaitOnEvent.event_occurred
RECURSIVE WaitOnDeliverAll(_, _, _, _)
WaitOnDeliverAll(w, em, ls, event) ==
    IF ls = <<>> \/ w.raised # None THEN w
    ELSE WaitOnDeliverAll(WaitOnEvent_event_occurred(w, Head(ls), em, event),
                          em, Tail(ls), event)

RECURSIVE WaitOnWildcardLoop(_, _, _, _)
WaitOnWildcardLoop(w, em, items, event) ==
    IF items = <<>> \/ w.raised # None THEN w
    ELSE IF Head(items) \notin DOMAIN w.regexs[em] THEN Raise(w, "KeyError")
    ELSE IF _wildcard_match(w, em, Head(items), event)
    THEN LET ls == IF Head(items) \in DOMAIN w.wildcard[em]
                   THEN w.wildcard[em][Head(items)] ELSE {}
         IN WaitOnWildcardLoop(
               WaitOnDeliverAll(w, em,
                                Ordered(WaitOnOrder, ls, w.order.listeners),
                                event),
               em, Tail(items), event)
    ELSE WaitOnWildcardLoop(w, em, Tail(items), event)

WaitOn_emitter_event_occurred(w, em, event) ==
    LET w1 == WaitOnWildcardLoop(w, em,
                                 Ordered(PatternOrder, DOMAIN w.wildcard[em],
                                         w.order.patterns),
                                 event)
    IN IF w1.raised # None \/ event \notin DOMAIN w1.specific[em] THEN w1
       ELSE LET w2 == WaitOnDeliverAll(
                         w1, em,
                         Ordered(WaitOnOrder, w1.specific[em][event],
                                 w1.order.listeners),
                         event)
            IN IF w2.raised = "TypeError"
               THEN [w2 EXCEPT !.raised = "RuntimeError"]
               ELSE w2

\* total += len(ls) over the items of a dict of listener sets
TotalLen(d) ==
    Cardinality({x \in (DOMAIN d) \X (Listeners \cup WaitOnEvents) :
                    x[2] \in d[x[1]]})

\* EventEmitter.num_listening()
num_listening(w, em) == TotalLen(w.specific[em]) + TotalLen(w.wildcard[em])

NoOccurrence ==
    [emitter |-> None, event |-> <<>>, delivered |-> <<>>, raised |-> None,
     before |-> 0, after |-> 0]

WaitEventStart ==
    /\ we_specific = [em \in Emitters |-> EmptyDict]
    /\ we_wildcard = [em \in Emitters |-> EmptyDict]
    /\ we_regexs = [em \in Emitters |-> EmptyDict]
    /\ we_waitons = NoWaitOnEvents
    /\ we_last = NoOccurrence

\* A call on an emitter returned or raised: keep the emitters as it left
\* them
EventCommit(w) ==
    /\ e_specific' = w.specific
    /\ e_wildcard' = w.wildcard
    /\ e_regexs' = w.regexs
    /\ e_children' = w.children

(***************************************************************************)
(* A loop Future used directly: its owner registers callbacks, completes   *)
(* or cancels it, and ticks the loop                                       *)
(***************************************************************************)
MaxCallbacks == 3

CallbackFns == {"fn1", "fn2"}

TheFuture == "F"

FutureWorld ==
    [fut |-> f_fut, deferred |-> f_deferred, ran |-> f_ran,
     raised |-> None, ret |-> NoRet]

\* The value a call returned, as Python prints it
Returned(w) ==
    IF w.ret.type = "bool"
    THEN (IF w.ret.result THEN "True" ELSE "False")
    ELSE None

NoCall == [op |-> None, arg |-> None, ret |-> None, raised |-> None]

FutureStart ==
    /\ f_fut = [f \in {TheFuture} |-> NewFuture("PENDING", "future")]
    /\ f_deferred = <<>>
    /\ f_ran = <<>>
    /\ f_registered = <<>>
    /\ f_scheduled = <<>>
    /\ f_last = NoCall

\* The call op(arg) on the future returned: keep what it did.  call_soon
\* appends to the queue, so what the call scheduled is the queue's new tail.
FutureCommit(w, op, arg) ==
    /\ f_fut' = w.fut
    /\ f_deferred' = w.deferred
    /\ f_ran' = w.ran
    /\ f_scheduled' = f_scheduled \o
                        [i \in 1..(Len(w.deferred) - Len(f_deferred)) |->
                            w.deferred[Len(f_deferred) + i].cb]
    /\ f_last' = [op |-> op, arg |-> arg, ret |-> Returned(w),
                  raised |-> w.raised]

(***************************************************************************)
(* ProcessSpec: the declaration of the inputs and outputs of a process     *)
(***************************************************************************)
\* DynamicInputPort.NAME and DynamicOutputPort.NAME
DynamicName == "_dynamic"

InputPortKinds == {"InputPort", "InputGroupPort", "DynamicInputPort"}
OutputPortKinds == {"OutputPort", "DynamicOutputPort"}

Port(kind, required) == [kind |-> kind, required |-> required]

\* The ports that are declared, and the inputs that are validated
DeclaredInputs ==
    [a |-> {Port("InputPort", TRUE), Port("InputPort", FALSE),
            Port("InputGroupPort", FALSE), Port("OutputPort", TRUE)},
     b |-> {Port("InputPort", TRUE)}]
DeclaredOutputs == [x |-> {Port("OutputPort", TRUE), Port("InputPort", TRUE)}]
InputDicts ==
    {d \in UNION {[keys -> {"good", "bad"}] : keys \in SUBSET {"a", "b", "c"}} :
        \A k \in DOMAIN d \ {"a"} : d[k] = "good"}
NameOrder == <<"a", "b", DynamicName>>
ValidatorFns == {"accept", "reject"}

Valid == [ok |-> "True", msg |-> None]
Invalid(msg) == [ok |-> "False", msg |-> msg]
NoResult == [ok |-> None, msg |-> None]

\* ProcessSpec.__init__
NewProcessSpec ==
    [inputs |-> EmptyDict, outputs |-> EmptyDict, deterministic |-> None,
     validator |-> None, sealed |-> FALSE]

SpecWorld ==
    [spec |-> ps_spec, raised |-> None, ret |-> NoResult, called |-> 0]

seal(w) == [w EXCEPT !.spec.sealed = TRUE]

input_port(w, name, port) ==
    IF w.spec.sealed THEN Raise(w, "RuntimeError")
    ELSE IF port.kind \notin InputPortKinds THEN Raise(w, "TypeError")
    ELSE [w EXCEPT !.spec.inputs = DictSet(@, name, port)]

\* self._inputs.pop(name) raises KeyError when the name is not there
remove_input(w, name) ==
    IF w.spec.sealed THEN Raise(w, "RuntimeError")
    ELSE IF name \notin DOMAIN w.spec.inputs THEN Raise(w, "KeyError")
    ELSE [w EXCEPT !.spec.inputs = DictDel(@, name)]

no_dynamic_input(w) ==
    LET w1 == remove_input(w, DynamicName) IN
    IF w1.raised = "KeyError" THEN [w1 EXCEPT !.raised = None] ELSE w1

output_port(w, name, port) ==
    IF w.spec.sealed THEN Raise(w, "RuntimeError")
    ELSE IF port.kind \notin OutputPortKinds THEN Raise(w, "TypeError")
    ELSE [w EXCEPT !.spec.outputs = DictSet(@, name, port)]

remove_output(w, name) ==
    IF w.spec.sealed THEN Raise(w, "RuntimeError")
    ELSE IF name \notin DOMAIN w.spec.outputs THEN Raise(w, "KeyError")
    ELSE [w EXCEPT !.spec.outputs = DictDel(@, name)]

no_dynamic_output(w) ==
    LET w1 == remove_output(w, DynamicName) IN
    IF w1.raised = "KeyError" THEN [w1 EXCEPT !.raised = None] ELSE w1

\* assert not self.sealed
set_deterministic(w, to) ==
    IF w.spec.sealed THEN Raise(w, "AssertionError")
    ELSE [w EXCEPT !.spec.deterministic = to]

validator(w, fn) == [w EXCEPT !.spec.validator = fn]

\* port.validate(value): a required port needs a value, and a value must
\* have the type of the port
Port_validate(name, port, value) ==
    IF value = None
    THEN (IF port.required THEN Invalid(<<"required", name>>) ELSE Valid)
    ELSE IF value = "bad" THEN Invalid(<<"type", name>>)
    ELSE Valid

\* inputs.get(name, None)
Get(inputs, name) == IF name \in DOMAIN inputs THEN inputs[name] ELSE None

\* for name, port in self.inputs.iteritems(): the first port that does not
\* validate ends the loop
RECURSIVE ValidatePorts(_, _, _)
ValidatePorts(spec, inputs, names) ==
    IF names = <<>> THEN Valid
    ELSE LET r == Port_validate(Head(names), spec.inputs[Head(names)],
                                Get(inputs, Head(names)))
         IN IF r.ok = "False" THEN r
            ELSE ValidatePorts(spec, inputs, Tail(names))

\* self._validator(self, inputs)
Validator_call(fn) == IF fn = "accept" THEN Valid ELSE Invalid("rejected")

validate_ValidatorFirst(w, inputs, reversed) ==
    LET spec == w.spec
        ports == ValidatePorts(spec, inputs,
                               Ordered(NameOrder, DOMAIN spec.inputs, reversed))
    IN IF spec.validator # None /\ Validator_call(spec.validator).ok = "False"
       THEN [w EXCEPT !.called = @ + 1,
                      !.ret = Validator_call(spec.validator)]
       ELSE IF /\ DynamicName \notin DOMAIN spec.inputs
               /\ DOMAIN inputs \ DOMAIN spec.inputs # {}
       THEN [w EXCEPT !.ret = Invalid("Unexpected inputs found")]
       ELSE IF ports.ok = "False" THEN [w EXCEPT !.ret = ports]
       ELSE [w EXCEPT !.ret = Valid,
                      !.called = IF spec.validator = None THEN @ ELSE @ + 1]

validate(w, inputs, reversed) ==
    LET spec == w.spec
        ports == ValidatePorts(spec, inputs,
                               Ordered(NameOrder, DOMAIN spec.inputs, reversed))
    IN IF /\ DynamicName \notin DOMAIN spec.inputs
          /\ DOMAIN inputs \ DOMAIN spec.inputs # {}
       THEN [w EXCEPT !.ret = Invalid("Unexpected inputs found")]
       ELSE IF ports.ok = "False" THEN [w EXCEPT !.ret = ports]
       ELSE IF spec.validator = None THEN [w EXCEPT !.ret = Valid]
       ELSE [w EXCEPT !.called = @ + 1,
                      !.ret = Validator_call(spec.validator)]

NoSpecCall ==
    [op |-> None, inputs |-> EmptyDict, raised |-> None, ret |-> NoResult,
     called |-> 0, before |-> NewProcessSpec]

SpecStart ==
    /\ ps_spec = NewProcessSpec
    /\ ps_last = NoSpecCall

\* The call op on the spec returned: keep what it did
SpecCommit(w, op, inputs) ==
    /\ ps_spec' = w.spec
    /\ ps_last' = [op |-> op, inputs |-> inputs, raised |-> w.raised,
                   ret |-> w.ret, called |-> w.called, before |-> ps_spec]

(***************************************************************************)
(* Saving the state of a process to a bundle and re-creating it            *)
(***************************************************************************)
Slots == {1, 2}
SlotFuts == Slots \X (0..MaxWaits)

\* A key that a bundle does not have
Absent == "absent"

\* The classes of the wait-ons in their method resolution order and the
\* methods each class defines.  class WaitOnEvent(WaitOn, Unsavable)
WaitOnMRO(kind) ==
    IF kind = "event" THEN <<"WaitOnEvent", "WaitOn", "Unsavable">>
    ELSE <<kind, "WaitOn">>

ClassDefines(cls) ==
    CASE cls = "WaitOn" ->
            {"__init__", "save_instance_state", "load_instance_state"}
      [] cls = "Unsavable" -> {"save_instance_state", "load_instance_state"}
      [] cls = "WaitOnEvent" -> {"__init__"}
      [] OTHER -> {}

\* The class whose method is called on a wait-on of this kind
Resolve(kind, method) ==
    LET mro == WaitOnMRO(kind)
        i == CHOOSE i \in 1..Len(mro) :
                /\ method \in ClassDefines(mro[i])
                /\ \A j \in 1..(i - 1) : method \notin ClassDefines(mro[j])
    IN mro[i]

NoWaitOnBundle == [class_name |-> Absent, outcome |-> Absent]

NoBundle ==
    [class_name |-> Absent, exec_func |-> Absent, callback |-> Absent,
     wait_on |-> NoWaitOnBundle, abort |-> Absent, abort_msg |-> Absent,
     exc_info |-> Absent]

Saved(bundle) == [raised |-> None, bundle |-> bundle]

\* wait_on.save_instance_state(out_state)
WaitOn_save_instance_state(w, f) ==
    IF Resolve(w.fut[f].kind, "save_instance_state") = "Unsavable"
    THEN [raised |-> "Unsupported", bundle |-> NoWaitOnBundle]
    ELSE Saved([class_name |-> w.fut[f].kind,
                outcome |-> IF w.fut[f].state = "PENDING" THEN None
                            ELSE "(True, None)"])

\* state.save_instance_state(out_state)
save_instance_state(w, st) ==
    LET b == [NoBundle EXCEPT !.class_name = st.label] IN
    CASE st.label = "RUNNING" -> Saved([b EXCEPT !.exec_func = st.exec_func])
      [] st.label = "WAITING" ->
            LET wo == WaitOn_save_instance_state(w, st.wait_on) IN
            [raised |-> wo.raised,
             bundle |-> [b EXCEPT !.callback = st.callback,
                                  !.wait_on = wo.bundle]]
      [] st.label = "STOPPED" ->
            Saved([b EXCEPT !.abort = IF st.abort THEN "True" ELSE "False",
                            !.abort_msg = st.abort_msg])
      [] st.label = "FAILED" -> Saved([b EXCEPT !.exc_info = st.exc_info])
      [] OTHER -> Saved(b)

\* WaitOn.create_from(bundle): wait_on_class(recreate_from=bundle)
WaitOn_create_from(w, t, saved) ==
    IF Resolve(saved.class_name, "__init__") # "WaitOn"
    THEN \* __init__(self, emitter, event) does not take recreate_from
         Raise(w, "TypeError")
    ELSE IF Resolve(saved.class_name, "load_instance_state") = "Unsavable"
    THEN Raise(w, "Unsupported")
    ELSE LET w1 == NewWaitOn(w, t, saved.class_name) IN
         IF saved.outcome # None
         THEN [w1 EXCEPT !.fut[LastWaitOn(w1, t)].state = "FINISHED"]
         ELSE w1

\* load_state(process, state_bundle): the state object is made with __new__
\* and filled by load_instance_state
load_state(w, t, bundle) ==
    CASE bundle.class_name = "RUNNING" ->
            [w EXCEPT !.pstate[t] =
                Running(bundle.exec_func, Unset)]
      [] bundle.class_name = "WAITING" ->
            LET w1 == WaitOn_create_from(w, t, bundle.wait_on) IN
            IF w1.raised # None THEN w1
            ELSE IF bundle.callback = None
            THEN \* getattr(self._process, None)
                 Raise(w1, "TypeError")
            ELSE [w1 EXCEPT !.pstate[t] =
                    Waiting(LastWaitOn(w1, t), bundle.callback)]
      [] bundle.class_name = "STOPPED" ->
            [w EXCEPT !.pstate[t] =
                Stopped(bundle.abort = "True", bundle.abort_msg)]
      [] bundle.class_name = "FAILED" ->
            [w EXCEPT !.pstate[t] = Failed(bundle.exc_info)]
      [] OTHER -> [w EXCEPT !.pstate[t] = Created]

\* The programs that are saved: one of them waits for an event
ReloadPrograms == ProcessPrograms \cup {"WaitForEventProcess"}

NewReloadWorld ==
    [prog |-> [t \in Slots |-> NotCreated], ticking |-> <<>>,
     deferred |-> <<>>, inLoop |-> {},
     fut |-> [f \in SlotFuts |-> NewFuture("PENDING", "unused")],
     task_future |-> [t \in Slots |-> NoFut],
     wait_on_future |-> [t \in Slots |-> NoFut],
     pstate |-> [t \in Slots |-> Created],
     nwaits |-> [t \in Slots |-> 0], log |-> [t \in Slots |-> <<>>],
     nsteps |-> [t \in Slots |-> 0], tickSteps |-> [t \in Slots |-> 0],
     stepExc |-> [t \in Slots |-> None], raised |-> None, ret |-> NoRet]

NothingSaved == [state |-> Created, raised |-> None, mark |-> 0]

NothingLoaded == [status |-> None, w |-> NewReloadWorld]

ReloadStart ==
    /\ rl_w = NewReloadWorld
    /\ rl_bundle = NoBundle
    /\ rl_saved = NothingSaved
    /\ rl_loaded = NothingLoaded

\* The process in slot t was terminated
Destroyed(w, t) == InSeq(w.log[t], "on_destroy")

\* The done-callbacks of process t that the loop has been asked to call
DueCallbacks(w, t) ==
    SelectSeq(w.deferred, LAMBDA d : d.cb.task = t)

\* The loop lets process t take its next step: it calls the done-callback of
\* its wait when there is one to call, and ticks the process otherwise
Advance(w, t) ==
    LET due == DueCallbacks(w, t) IN
    IF due # <<>>
    THEN _wait_on_done(
            [w EXCEPT !.deferred = SeqRemoveFirst(@, Head(due))],
            Head(due).cb)
    ELSE Process_step(w, t)

\* Process t waits and its wait has not finished
Blocked(w, t) ==
    /\ w.pstate[t].label = "WAITING"
    /\ w.pstate[t].future # NoFut
    /\ DueCallbacks(w, t) = <<>>

(***************************************************************************)
(* plum/persistence/pickle_persistence.py: PicklePersistence               *)
(***************************************************************************)
Adapters == {1, 2}

\* Two adapters made with the same directories share a store
Stores == {1, 2}

PersistedPids == {1}

Directories == {"running", "finished", "failed"} \X Stores

NoFile == "no file"

Messages == {"finish", "failed", "destroy"}

\* The process as the adapter sees it: process.pid, and what
\* create_checkpoint makes of it (the state, or nothing that pickles)
Proc(pid) ==
    [pid |-> pid, state |-> pp_proc[pid].state,
     picklable |-> pp_proc[pid].picklable]

PersistWorld ==
    [fs |-> pp_fs,
     listeners |-> [pid \in PersistedPids |-> pp_proc[pid].listeners],
     raised |-> None]

isfile(w, dir, pid) == w.fs[dir][pid] # NoFile

get_running_path(a) == <<"running", pp_store[a]>>

finished_directory(a) == <<"finished", pp_store[a]>>

failed_directory(a) == <<"failed", pp_store[a]>>

\* open(filename, 'wb') makes the file, pickle.dump fills it or raises
save(w, a, proc) ==
    LET filename == get_running_path(a) IN
    IF proc.picklable
    THEN [w EXCEPT !.fs[filename][proc.pid] = proc.state]
    ELSE \* Don't leave a half-baked pickle around
         Raise([w EXCEPT !.fs[filename][proc.pid] = NoFile],
               "PicklingError")

\* try: self.save(process) except pickle.PicklingError: LOGGER.error(...)
SaveLogged(w, a, proc) ==
    LET w1 == save(w, a, proc) IN
    IF w1.raised = "PicklingError" THEN [w1 EXCEPT !.raised = None] ELSE w1

persist_process(w, a, proc) ==
    LET w1 == IF ~isfile(w, get_running_path(a), proc.pid)
              THEN SaveLogged(w, a, proc)
              ELSE w
    IN IF w1.raised # None
       THEN w1
       ELSE [w1 EXCEPT !.listeners[proc.pid] = @ \cup {a}]

on_process_run(w, a, proc) == SaveLogged(w, a, proc)

on_process_wait(w, a, proc) == SaveLogged(w, a, proc)

on_process_finish(w, a, proc) == SaveLogged(w, a, proc)

_release_process(w, a, pid, save_path) ==
    LET pickle_path == get_running_path(a) IN
    IF ~isfile(w, pickle_path, pid)
    THEN Raise(w, "ValueError")
    ELSE IF save_path # None
         THEN \* os.rename(pickle_path, to)
              [w EXCEPT !.fs[save_path][pid] = w.fs[pickle_path][pid],
                        !.fs[pickle_path][pid] = NoFile]
         ELSE [w EXCEPT !.fs[pickle_path][pid] = NoFile]

\* try: ... except ValueError: pass
Released(w) ==
    IF w.raised = "ValueError" THEN [w EXCEPT !.raised = None] ELSE w

on_monitored_process_failed(w, a, proc) ==
    Released(_release_process(w, a, proc.pid, failed_directory(a)))

on_process_destroy(w, a, proc) ==
    Released(_release_process(w, a, proc.pid, finished_directory(a)))

\* One message sent to the adapters in to, one after the other
Fire(Handler(_, _, _), w, to, proc) ==
    LET w1 == IF 1 \in to /\ w.raised = None THEN Handler(w, 1, proc) ELSE w
    IN IF 2 \in to /\ w1.raised = None THEN Handler(w1, 2, proc) ELSE w1

\* A message of a terminated process: finish and destroy go to the
\* listeners of the process, failed goes to every listener of the monitor
Deliver(w, proc, m) ==
    CASE m = "finish" ->
            Fire(on_process_finish, w, w.listeners[proc.pid], proc)
      [] m = "failed" ->
            Fire(on_monitored_process_failed, w, Adapters, proc)
      [] m = "destroy" ->
            Fire(on_process_destroy, w, w.listeners[proc.pid], proc)

NewProc(picklable) ==
    [state |-> "CREATED", picklable |-> picklable, listeners |-> {},
     persisted |-> {}, pending |-> {}, sent |-> <<>>]

NoPersistCall ==
    [adapter |-> 0, pid |-> 0, raised |-> None, others |-> {},
     before |-> [d \in Directories |-> [pid \in PersistedPids |-> NoFile]],
     after |-> [d \in Directories |-> [pid \in PersistedPids |-> NoFile]]]

(***************************************************************************)
(* Overridden lifecycle hooks: the enter methods of plum/process_states.py *)
(* and WaitOn.__init__ of plum/wait.py                                     *)
(***************************************************************************)
ProcessHooks ==
    {"on_create", "on_start", "on_run", "on_wait", "on_resume", "on_finish",
     "on_stop", "on_fail", "on_destroy"}

WaitOnHooks == {"init", "load_instance_state"}

\* The classes under test: every hook calls the base, one hook forgets to,
\* or all of them forget
Overriders ==
    {{}} \cup {{h} : h \in ProcessHooks \cup WaitOnHooks}
         \cup {ProcessHooks \cup WaitOnHooks}

WaitOnBundles ==
    {NoWaitOnBundle} \cup
    {[class_name |-> "checkpoint", outcome |-> o] :
        o \in {None, "(True, None)"}}

HookWorld ==
    [forgets |-> hk_forgets, tried |-> <<>>, raised |-> None,
     logged |-> FALSE, super_called |-> FALSE, outcome |-> None]

\* self._process._on_<hook>(): the guard bit is cleared, the hook is called,
\* and the bit, which the base implementation sets, is asserted
CallHook(w, h) ==
    IF w.raised # None
    THEN w
    ELSE LET w1 == [w EXCEPT !.tried = Append(@, h)] IN
         IF h \in w.forgets THEN Raise(w1, "AssertionError") ELSE w1

\* <State>.enter(previous_state), by the label of the state entered
State_enter(w, label, previous_state, aborted) ==
    CASE label = "CREATED" -> CallHook(w, "on_create")
      [] label = "RUNNING" ->
            LET w1 == CASE previous_state = "CREATED" ->
                              CallHook(w, "on_start")
                        [] previous_state = "WAITING" ->
                              CallHook(w, "on_resume")
                        [] previous_state = "RUNNING" -> w
                        [] OTHER -> Raise(w, "RuntimeError")
            IN CallHook(w1, "on_run")
      [] label = "WAITING" -> CallHook(w, "on_wait")
      [] label = "STOPPED" ->
            IF aborted
            THEN CallHook(CallHook(w, "on_abort"), "on_stop")
            ELSE IF previous_state = "RUNNING"
            THEN CallHook(CallHook(w, "on_finish"), "on_stop")
            ELSE Raise(w, "RuntimeError")
      [] label = "FAILED" ->
            \* try: self._process._on_fail(self._exc_info)
            \* except BaseException: self._process.log_with_pid(...)
            LET w1 == CallHook(w, "on_fail") IN
            IF w1.raised # None
            THEN [w1 EXCEPT !.raised = None, !.logged = TRUE]
            ELSE w1

\* A method of WaitOn as overridden by the class under test: the override
\* calls the base method (whose effect is base) or returns without it
WaitOn_Override(w, h, base) ==
    IF h \in w.forgets
    THEN [w EXCEPT !.tried = Append(@, h)]
    ELSE [base EXCEPT !.tried = Append(@, h)]

WaitOn_done(w, outcome) ==
    IF w.outcome # None
    THEN Raise(w, "AssertionError")
    ELSE [w EXCEPT !.outcome = outcome]

WaitOn_init(w) == [w EXCEPT !.super_called = TRUE]

WaitOn_load_instance_state(w, bundle) ==
    LET w1 == IF bundle.outcome # None
              THEN WaitOn_done(w, bundle.outcome)
              ELSE w
    IN IF w1.raised # None THEN w1 ELSE [w1 EXCEPT !.super_called = TRUE]

\* WaitOn.__init__(*args, **kwargs); bundle is kwargs.get('recreate_from')
WaitOn___init__(w, bundle) ==
    LET w0 == [w EXCEPT !.outcome = None, !.super_called = FALSE]
        w1 == IF bundle # NoWaitOnBundle
              THEN WaitOn_Override(w0, "load_instance_state",
                      WaitOn_load_instance_state(w0, bundle))
              ELSE WaitOn_Override(w0, "init", WaitOn_init(w0))
    IN IF w1.raised # None
       THEN w1
       ELSE IF ~w1.super_called
       THEN Raise(w1, "AssertionError")
       ELSE w1

NoStep == [step |-> None, tried |-> <<>>, raised |-> None, logged |-> FALSE]

(***************************************************************************)
(* plum/engine/serial.py and plum/execution_engine.py: SerialEngine        *)
(***************************************************************************)
MaxPolls == 3

EngineFutures == {1, 2}

Engines == {"engine.serial", "execution_engine"}

\* A process of the engine: do_run and chain continuations, each returning
\* the wait on for the next one, and the last one returning, raising an
\* Exception or raising a BaseException that is no Exception
EnginePrograms ==
    [chain : 0..2, end : {"return", "raise", "interrupt"}]

KeyboardInterrupt == "KeyboardInterrupt"

NoRetval == [kind |-> None, callback |-> 0]

\* process.do_run() (k = 0) or getattr(process, wait_on.callback)(wait_on)
Continuation(program, k) ==
    IF k < program.chain
    THEN [kind |-> "WaitOn", callback |-> k + 1]
    ELSE [kind |-> program.end, callback |-> 0]

NewEngineWorld == [msgs |-> <<>>, retval |-> NoRetval, raised |-> None]

Msg(w, name, arg) ==
    IF w.raised # None THEN w ELSE [w EXCEPT !.msgs = Append(@, <<name, arg>>)]

Call(w, program, k) ==
    IF w.raised # None
    THEN w
    ELSE LET r == Continuation(program, k)
             w1 == [w EXCEPT !.msgs = Append(@, <<"call", k>>)]
         IN CASE r.kind = "raise" -> Raise(w1, UserException)
              [] r.kind = "interrupt" -> Raise(w1, KeyboardInterrupt)
              [] OTHER -> [w1 EXCEPT !.retval = r]

_start_process(w, program) == Call(Msg(w, "on_start", 0), program, 0)

_wait_process(w, wait_on) == Msg(w, "on_wait", wait_on.callback)

_continue_process(w, program, wait_on) ==
    Call(Msg(w, "on_continue", wait_on.callback), program, wait_on.callback)

_finish_process(w) == Msg(Msg(w, "on_finish", 0), "on_stop", 0)

\* One pass of the loop of _continue_till_finished(process, wait_on)
ContinueOnce(w, program, wait_on) ==
    _continue_process(_wait_process(w, wait_on), program, wait_on)

\* _run_lifecycle once _do_run has its last retval or has raised: the
\* process is finished and destroyed, an Exception is raised again
RunEnd(w) ==
    IF w.raised = None
    THEN Msg(_finish_process(w), "on_destroy", 0)
    ELSE IF w.raised = UserException
    THEN [Msg(_finish_process(Msg([w EXCEPT !.raised = None], "on_fail", 0)),
              "on_destroy", 0) EXCEPT !.raised = w.raised]
    ELSE w

\* process.run(inputs, engine) of the process given to the engine of
\* plum/execution_engine.py
Process_run(w, program) ==
    CASE program.end = "raise" -> Raise(w, UserException)
      [] program.end = "interrupt" -> Raise(w, KeyboardInterrupt)
      [] OTHER -> w

NoEngineFuture ==
    [engine |-> None, program |-> [chain |-> 0, end |-> None],
     exception |-> None, outputs |-> None]

\* SerialEngine.Future.__init__ of either engine, given the run of the
\* process: try: ... except Exception as e: self._exception = e
Future___init__(engine, program, w) ==
    [engine |-> engine, program |-> program,
     exception |-> IF w.raised = UserException THEN w.raised ELSE None,
     outputs |-> IF w.raised = None THEN Outputs ELSE None]

NoFutureCall == [call |-> None, fut |-> 0, ret |-> None, raised |-> None]

serial_Future_result(self) ==
    IF self.exception # None
    THEN [call |-> "result", fut |-> 0, ret |-> None,
          raised |-> self.exception]
    ELSE [call |-> "result", fut |-> 0, ret |-> self.outputs,
          raised |-> None]

execution_engine_Future_result(self) ==
    [call |-> "result", fut |-> 0, ret |-> self.outputs, raised |-> None]

Future_exception(self) ==
    [call |-> "exception", fut |-> 0, ret |-> self.exception, raised |-> None]

Idle ==
    [pc |-> "idle", fut |-> 0, program |-> [chain |-> 0, end |-> None],
     w |-> NewEngineWorld, wait_on |-> NoRetval, polls |-> 0]

EngineStart ==
    /\ en_run = Idle
    /\ en_fut = [f \in EngineFutures |-> NoEngineFuture]
    /\ en_last = NoFutureCall

\* The objects of a section that a specification does not construct
NotBuilt == "not built"

SpecAbsent == ps_spec = NotBuilt /\ ps_last = NotBuilt

ReloadAbsent ==
    /\ rl_w = NotBuilt
    /\ rl_bundle = NotBuilt
    /\ rl_saved = NotBuilt
    /\ rl_loaded = NotBuilt

PersistAbsent ==
    /\ pp_fs = NotBuilt
    /\ pp_store = NotBuilt
    /\ pp_proc = NotBuilt
    /\ pp_last = NotBuilt

HookAbsent == hk_forgets = NotBuilt /\ hk_state = NotBuilt /\ hk_last = NotBuilt

EngineAbsent == en_run = NotBuilt /\ en_fut = NotBuilt /\ en_last = NotBuilt

WaitEventAbsent ==
    /\ we_specific = NotBuilt
    /\ we_wildcard = NotBuilt
    /\ we_regexs = NotBuilt
    /\ we_waitons = NotBuilt
    /\ we_last = NotBuilt

WaitAbsent ==
    /\ wt_outcome = NotBuilt
    /\ wt_waiting = NotBuilt
    /\ wt_lock = NotBuilt
    /\ wt_pc = NotBuilt
    /\ wt_obs = NotBuilt

SubAbsent ==
    /\ sb_specific = NotBuilt
    /\ sb_wildcard = NotBuilt
    /\ sb_regexs = NotBuilt
    /\ sb_children = NotBuilt
    /\ sb_removed = NotBuilt
    /\ sb_calls = NotBuilt
    /\ sb_last = NotBuilt

PFutureAbsent ==
    /\ pf_terminated = NotBuilt
    /\ pf_callbacks = NotBuilt
    /\ pf_pc = NotBuilt
    /\ pf_next = NotBuilt
    /\ pf_invoked = NotBuilt
    /\ pf_process = NotBuilt

ManagerAbsent ==
    /\ pm_processes = NotBuilt
    /\ pm_plays = NotBuilt
    /\ pm_pc = NotBuilt
    /\ pm_calls = NotBuilt

PollAbsent ==
    /\ pe_listeners = NotBuilt
    /\ pe_flags = NotBuilt
    /\ pe_timers = NotBuilt
    /\ pe_log = NotBuilt

\* Only the objects of one section are constructed
OnlySection(section) ==
    /\ IF section = "manager" THEN TRUE ELSE ManagerAbsent
    /\ IF section = "poll" THEN TRUE ELSE PollAbsent
    /\ IF section = "pfuture" THEN TRUE ELSE PFutureAbsent
    /\ IF section = "remove" THEN TRUE ELSE rm_removed = NotBuilt
    /\ IF section = "sub" THEN TRUE ELSE SubAbsent
    /\ IF section = "wait" THEN TRUE ELSE WaitAbsent
    /\ IF section = "spec" THEN SpecStart ELSE SpecAbsent
    /\ IF section = "reload" THEN ReloadStart ELSE ReloadAbsent
    /\ IF section = "persist" THEN TRUE ELSE PersistAbsent
    /\ IF section = "hook" THEN TRUE ELSE HookAbsent
    /\ IF section = "engine" THEN EngineStart ELSE EngineAbsent
    /\ IF section = "wait_event" THEN WaitEventStart ELSE WaitEventAbsent

\* The loop, its futures and the emitters are used without the later sections
RestStart == OnlySection(None)

(***************************************************************************)
(* Initial state: every task was created with loop.create_task             *)
(***************************************************************************)
LoopInit ==
    /\ prog \in [Tasks -> Programs \cup {NotCreated}]
    /\ ticking = SelectSeq([i \in 1..NumTasks |-> i],
                           LAMBDA t : prog[t] # NotCreated)
    /\ deferred = <<>>
    /\ inLoop = {t \in Tasks : prog[t] # NotCreated}
    /\ phase = "idle"
    /\ pending = <<>>
    /\ sweep = <<>>
    /\ fut = [f \in FutIds |->
                IF f[2] = 0 THEN NewFuture("PENDING", "task")
                ELSE NewFuture("PENDING", "unused")]
    /\ task_future = [t \in Tasks |->
                        IF prog[t] = NotCreated THEN NoFut ELSE TaskFut(t)]
    /\ wait_on_future = [t \in Tasks |-> NoFut]
    /\ pstate = [t \in Tasks |-> Created]
    /\ nwaits = [t \in Tasks |-> 0]
    /\ log = [t \in Tasks |->
                IF prog[t] \in ProcessPrograms
                THEN <<"CREATED", "on_create">> ELSE <<>>]
    /\ nsteps = [t \in Tasks |-> 0]
    /\ tickSteps = [t \in Tasks |-> 0]
    /\ stepExc = [t \in Tasks |-> None]
    /\ calls = [t \in Tasks |-> NoCalls]
    /\ errors = {}

Init ==
    /\ LoopInit
    /\ \E t \in Tasks : prog[t] # NotCreated
    /\ FutureStart
    /\ EventStart
    /\ RestStart

\* No task, no call on the future, no emitter used
Quiescent ==
    /\ LoopInit
    /\ prog = [t \in Tasks |-> NotCreated]
    /\ FutureStart
    /\ EventStart

(***************************************************************************)
(* loop.tick(): drain the deferred queue, tick a snapshot of the ticking   *)
(* tasks, drain the deferred queue again                                   *)
(***************************************************************************)
TickBegin ==
    /\ phase = "idle"
    /\ phase' = "drain1"
    /\ pending' = deferred
    /\ deferred' = <<>>
    /\ tickSteps' = [t \in Tasks |-> 0]
    /\ UNCHANGED <<prog, ticking, inLoop, sweep, fut, task_future,
                   wait_on_future, pstate, nwaits, log, nsteps, stepExc,
                   calls, errors>>
    /\ UNCHANGED <<futureVars, eventVars, restVars>>

RunWaitOnDone ==
    /\ phase \in {"drain1", "drain2"}
    /\ pending # <<>>
    /\ Head(pending).cb.fn = "_wait_on_done"
    /\ pending' = Tail(pending)
    /\ Commit(_wait_on_done(World, Head(pending).cb), Head(pending).cb.task)
    /\ UNCHANGED <<phase, sweep, calls>>
    /\ UNCHANGED <<futureVars, eventVars, restVars>>

RunWaitOnFutureCb ==
    /\ phase \in {"drain1", "drain2"}
    /\ pending # <<>>
    /\ Head(pending).cb.fn = "_wait_on_future_cb"
    /\ pending' = Tail(pending)
    /\ Commit(_wait_on_future_cb(World, Head(pending).cb.task),
              Head(pending).cb.task)
    /\ UNCHANGED <<phase, sweep, calls>>
    /\ UNCHANGED <<futureVars, eventVars, restVars>>

DrainEnd ==
    /\ phase \in {"drain1", "drain2"}
    /\ pending = <<>>
    /\ phase' = IF phase = "drain1" THEN "sweep" ELSE "idle"
    /\ sweep' = IF phase = "drain1" THEN ticking ELSE <<>>
    /\ calls' = IF phase = "drain1" THEN calls
                ELSE [t \in Tasks |->
                        IF calls[t].aborted_in = None THEN calls[t]
                        ELSE [calls[t] EXCEPT !.ticked = TRUE]]
    /\ UNCHANGED <<prog, ticking, deferred, inLoop, pending, fut,
                   task_future, wait_on_future, pstate, nwaits, log, nsteps,
                   tickSteps, stepExc, errors>>
    /\ UNCHANGED <<futureVars, eventVars, restVars>>

TickTask ==
    /\ phase = "sweep"
    /\ sweep # <<>>
    /\ sweep' = Tail(sweep)
    /\ \E o \in OutcomesOf(Head(sweep)) :
          Commit(tick(World, Head(sweep), o), Head(sweep))
    /\ UNCHANGED <<phase, pending, calls>>
    /\ UNCHANGED <<futureVars, eventVars, restVars>>

SweepEnd ==
    /\ phase = "sweep"
    /\ sweep = <<>>
    /\ phase' = "drain2"
    /\ pending' = deferred
    /\ deferred' = <<>>
    /\ UNCHANGED <<prog, ticking, inLoop, sweep, fut, task_future,
                   wait_on_future, pstate, nwaits, log, nsteps, tickSteps,
                   stepExc, calls, errors>>
    /\ UNCHANGED <<futureVars, eventVars, restVars>>

LoopStep ==
    \/ TickBegin
    \/ RunWaitOnDone
    \/ RunWaitOnFutureCb
    \/ DrainEnd
    \/ TickTask
    \/ SweepEnd

(***************************************************************************)
(* Calls made by the owner of the loop between two ticks                   *)
(***************************************************************************)
Abort ==
    /\ phase = "idle"
    /\ \E t \in Tasks, msg \in AbortMsgs :
          /\ prog[t] \in ProcessPrograms
          /\ pstate[t].label \in {"CREATED", "RUNNING", "WAITING"}
          /\ Commit(abort(World, t, msg), t)
          /\ calls' = [calls EXCEPT ![t].aborted_in = pstate[t].label,
                                    ![t].abort_msg = msg,
                                    ![t].held = pstate[t].future]
    /\ UNCHANGED <<phase, pending, sweep>>
    /\ UNCHANGED <<futureVars, eventVars, restVars>>

CancelFuture ==
    /\ phase = "idle"
    /\ \E t \in inLoop :
          /\ Commit(cancel(World, TaskFut(t)), t)
          /\ calls' = [calls EXCEPT ![t].cancelled = TRUE]
    /\ UNCHANGED <<phase, pending, sweep>>
    /\ UNCHANGED <<futureVars, eventVars, restVars>>

\* WaitForSignal.continue_(): the wait's future gets its result
Signal ==
    /\ phase = "idle"
    /\ \E f \in FutIds :
          /\ fut[f].kind = "signal"
          /\ fut[f].state = "PENDING"
          /\ Commit(set_result(World, f, "signalled"), f[1])
    /\ UNCHANGED <<phase, pending, sweep, calls>>
    /\ UNCHANGED <<futureVars, eventVars, restVars>>

Next ==
    \/ TickBegin
    \/ RunWaitOnDone
    \/ RunWaitOnFutureCb
    \/ DrainEnd
    \/ TickTask
    \/ SweepEnd
    \/ Abort
    \/ CancelFuture
    \/ Signal

Spec == Init /\ [][Next]_vars

\* A loop that holds a single task and is driven by run_until_complete,
\* which keeps calling tick()
FairInit == Init /\ \A t \in Tasks : (prog[t] # NotCreated <=> t = 1)

FairSpec == FairInit /\ [][Next]_vars /\ WF_vars(LoopStep)

(***************************************************************************)
(* The calls of the owner of a Future, on a loop that holds no task        *)
(***************************************************************************)
AddDoneCallback ==
    /\ Len(f_registered) < MaxCallbacks
    /\ \E fn \in CallbackFns :
          /\ FutureCommit(add_done_callback(FutureWorld, TheFuture, fn),
                          "add_done_callback", fn)
          /\ f_registered' = Append(f_registered, fn)
    /\ UNCHANGED <<loopVars, eventVars, restVars>>

SetResult ==
    /\ FutureCommit(set_result(FutureWorld, TheFuture, "result"),
                    "set_result", "result")
    /\ UNCHANGED <<f_registered, loopVars, eventVars, restVars>>

SetException ==
    /\ FutureCommit(set_exception(FutureWorld, TheFuture, "exception"),
                    "set_exception", "exception")
    /\ UNCHANGED <<f_registered, loopVars, eventVars, restVars>>

Cancel ==
    /\ FutureCommit(cancel(FutureWorld, TheFuture), "cancel", None)
    /\ UNCHANGED <<f_registered, loopVars, eventVars, restVars>>

\* loop.tick() with no task in the loop: one drain of the deferred queue
\* calls every queued callback
FutureDrain ==
    /\ f_deferred # <<>>
    /\ f_ran' = f_ran \o [i \in 1..Len(f_deferred) |-> f_deferred[i].cb]
    /\ f_deferred' = <<>>
    /\ f_last' = [NoCall EXCEPT !.op = "tick"]
    /\ UNCHANGED <<f_fut, f_registered, f_scheduled, loopVars, eventVars, restVars>>

FutureNext ==
    \/ AddDoneCallback
    \/ SetResult
    \/ SetException
    \/ Cancel
    \/ FutureDrain

FutureInit ==
    /\ LoopInit
    /\ prog = [t \in Tasks |-> NotCreated]
    /\ FutureStart
    /\ EventStart
    /\ RestStart

FutureSpec == FutureInit /\ [][FutureNext]_vars

(***************************************************************************)
(* The calls made on the emitters: users start and stop listening at the   *)
(* aggregator, an emitter is added to the aggregator as its child, and     *)
(* events of processes occur at the aggregator or at the other emitter     *)
(***************************************************************************)
StartListening ==
    /\ e_last.emitter = None
    /\ e_nlisten < MaxListens
    /\ \E l \in UserListeners, k \in SubKeys :
          EventCommit(start_listening(EventWorld(Quiet, AnyOrder),
                                      Aggregator, l, k))
    /\ e_nlisten' = e_nlisten + 1
    /\ UNCHANGED <<e_last, loopVars, futureVars, restVars>>

StopListening ==
    /\ e_last.emitter = None
    /\ \E l \in UserListeners, k \in SubKeys \cup {AllEvents} :
          EventCommit(stop_listening(EventWorld(Quiet, AnyOrder),
                                     Aggregator, l, k))
    /\ UNCHANGED <<e_nlisten, e_last, loopVars, futureVars, restVars>>

AddChild ==
    /\ e_last.emitter = None
    /\ e_children = <<>>
    /\ EventCommit(add_child(EventWorld(Quiet, AnyOrder), "child"))
    /\ UNCHANGED <<e_nlisten, e_last, loopVars, futureVars, restVars>>

\* Listener l is listening at the aggregator for something that matches event
Listens(l, event) ==
    \/ /\ event \in DOMAIN e_specific[Aggregator]
       /\ l \in e_specific[Aggregator][event]
    \/ \E k \in DOMAIN e_wildcard[Aggregator] :
          /\ l \in e_wildcard[Aggregator][k]
          /\ re_match(e_regexs[Aggregator][k], event)

\* Some set of listeners of emitter em has more than one order
ManyListen(em) ==
    \/ \E k \in DOMAIN e_specific[em] : Cardinality(e_specific[em][k]) > 1
    \/ \E k \in DOMAIN e_wildcard[em] : Cardinality(e_wildcard[em][k]) > 1

\* emitter.process_event_occurred(pid, name) on the aggregator or on a child
\* of it; the listener that acts is one that is listening for the event, and
\* the iteration orders are those that differ
EventOccurred ==
    /\ e_last.emitter = None
    /\ \E em \in Emitters, pid \in Pids, name \in EventNames,
          script \in Scripts, order \in Orders :
          LET event == ProcessEvent(pid, name)
              w == event_occurred(EventWorld(script, order), em, event)
          IN /\ em = Aggregator \/ \E i \in 1..Len(e_children) : e_children[i] = em
             /\ script = Quiet \/ Listens(script.actor, event)
             /\ order.patterns => Cardinality(DOMAIN e_wildcard[em]) > 1
             /\ order.listeners => ManyListen(em)
             /\ w.nlisten <= MaxListens
             /\ EventCommit(w)
             /\ e_nlisten' = w.nlisten
             /\ e_last' = [emitter |-> em, event |-> event, pid |-> pid,
                           script |-> script, delivered |-> w.delivered,
                           raised |-> w.raised, specific |-> e_specific,
                           wildcard |-> e_wildcard, children |-> e_children]
    /\ UNCHANGED <<loopVars, futureVars, restVars>>

\* The caller of event_occurred carries on
EventReturned ==
    /\ e_last.emitter # None
    /\ e_last' = NoEvent
    /\ UNCHANGED <<e_specific, e_wildcard, e_regexs, e_children, e_nlisten,
                   loopVars, futureVars, restVars>>

EventNext ==
    \/ StartListening
    \/ StopListening
    \/ AddChild
    \/ EventOccurred
    \/ EventReturned

EventInit ==
    /\ LoopInit
    /\ prog = [t \in Tasks |-> NotCreated]
    /\ FutureStart
    /\ EventStart
    /\ RestStart

EventSpec == EventInit /\ [][EventNext]_vars

(***************************************************************************)
(* The calls made on the ProcessSpec                                       *)
(***************************************************************************)
Seal ==
    /\ SpecCommit(seal(SpecWorld), "seal", EmptyDict)
    /\ UNCHANGED <<oldVars, reloadVars>>

\* input(name, ...), input_group(name, ...) and input_port(name, port)
Input ==
    /\ \E name \in DOMAIN DeclaredInputs :
          \E port \in DeclaredInputs[name] :
             SpecCommit(input_port(SpecWorld, name, port), "input",
                        EmptyDict)
    /\ UNCHANGED <<oldVars, reloadVars>>

DynamicInput ==
    /\ SpecCommit(input_port(SpecWorld, DynamicName,
                             Port("DynamicInputPort", FALSE)),
                  "dynamic_input", EmptyDict)
    /\ UNCHANGED <<oldVars, reloadVars>>

RemoveInput ==
    /\ \E name \in DOMAIN DeclaredInputs :
          SpecCommit(remove_input(SpecWorld, name), "remove_input", EmptyDict)
    /\ UNCHANGED <<oldVars, reloadVars>>

NoDynamicInput ==
    /\ SpecCommit(no_dynamic_input(SpecWorld), "no_dynamic_input", EmptyDict)
    /\ UNCHANGED <<oldVars, reloadVars>>

\* output(name, ...), optional_output(name, ...) and output_port(name, port)
Output ==
    /\ \E name \in DOMAIN DeclaredOutputs :
          \E port \in DeclaredOutputs[name] \cup {Port("OutputPort", FALSE)} :
             SpecCommit(output_port(SpecWorld, name, port), "output",
                        EmptyDict)
    /\ UNCHANGED <<oldVars, reloadVars>>

DynamicOutput ==
    /\ SpecCommit(output_port(SpecWorld, DynamicName,
                              Port("DynamicOutputPort", FALSE)),
                  "dynamic_output", EmptyDict)
    /\ UNCHANGED <<oldVars, reloadVars>>

RemoveOutput ==
    /\ \E name \in DOMAIN DeclaredOutputs :
          SpecCommit(remove_output(SpecWorld, name), "remove_output",
                     EmptyDict)
    /\ UNCHANGED <<oldVars, reloadVars>>

NoDynamicOutput ==
    /\ SpecCommit(no_dynamic_output(SpecWorld), "no_dynamic_output",
                  EmptyDict)
    /\ UNCHANGED <<oldVars, reloadVars>>

\* deterministic() and not_deterministic()
SetDeterministic ==
    /\ \E to \in {"True", "False"} :
          SpecCommit(set_deterministic(SpecWorld, to), "set_deterministic",
                     EmptyDict)
    /\ UNCHANGED <<oldVars, reloadVars>>

SetValidator ==
    /\ \E fn \in ValidatorFns :
          SpecCommit(validator(SpecWorld, fn), "validator", EmptyDict)
    /\ UNCHANGED <<oldVars, reloadVars>>

Validate ==
    /\ \E inputs \in InputDicts, reversed \in BOOLEAN :
          /\ reversed => Cardinality(DOMAIN ps_spec.inputs) > 1
          /\ SpecCommit(validate(SpecWorld, inputs, reversed), "validate",
                        inputs)
    /\ UNCHANGED <<oldVars, reloadVars>>

BuilderNext ==
    \/ Seal
    \/ Input
    \/ DynamicInput
    \/ RemoveInput
    \/ NoDynamicInput
    \/ Output
    \/ DynamicOutput
    \/ RemoveOutput
    \/ NoDynamicOutput
    \/ SetDeterministic
    \/ SetValidator
    \/ Validate

BuilderInit == Quiescent /\ OnlySection("spec")

BuilderSpec == BuilderInit /\ [][BuilderNext]_vars

(***************************************************************************)
(* A process is created and run, its state is saved to a bundle, and a     *)
(* second process is created from the bundle and run                       *)
(***************************************************************************)
RlCreate ==
    /\ rl_w.prog[1] = NotCreated
    /\ \E p \in ReloadPrograms :
          rl_w' = [rl_w EXCEPT !.prog[1] = p,
                               !.log[1] = <<"CREATED", "on_create">>]
    /\ UNCHANGED <<rl_bundle, rl_saved, rl_loaded, oldVars, specVars>>

RlStep ==
    /\ \E t \in Slots :
          /\ rl_w.prog[t] # NotCreated
          /\ ~Destroyed(rl_w, t)
          /\ ~Blocked(rl_w, t)
          /\ rl_w' = [Advance(rl_w, t) EXCEPT !.raised = None, !.ret = NoRet]
    /\ UNCHANGED <<rl_bundle, rl_saved, rl_loaded, oldVars, specVars>>

\* What a process waits for happens: the signal is given, the event occurs
RlSignal ==
    /\ \E f \in SlotFuts :
          /\ rl_w.fut[f].state = "PENDING"
          /\ rl_w.fut[f].kind \in {"signal", "event"}
          /\ rl_w' = set_result(rl_w, f, "done")
    /\ UNCHANGED <<rl_bundle, rl_saved, rl_loaded, oldVars, specVars>>

RlAbort ==
    /\ rl_w.prog[1] # NotCreated
    /\ rl_saved = NothingSaved
    /\ rl_w.pstate[1].label \in {"CREATED", "RUNNING", "WAITING"}
    /\ \E msg \in AbortMsgs :
          rl_w' = [abort(rl_w, 1, msg) EXCEPT !.raised = None, !.ret = NoRet]
    /\ UNCHANGED <<rl_bundle, rl_saved, rl_loaded, oldVars, specVars>>

RlSave ==
    /\ rl_w.prog[1] # NotCreated
    /\ rl_saved = NothingSaved
    /\ LET r == save_instance_state(rl_w, rl_w.pstate[1]) IN
          /\ rl_bundle' = IF r.raised = None THEN r.bundle ELSE NoBundle
          /\ rl_saved' = [state |-> rl_w.pstate[1], raised |-> r.raised,
                          mark |-> Len(rl_w.log[1])]
    /\ UNCHANGED <<rl_w, rl_loaded, oldVars, specVars>>

\* A process of the same class is created from the bundle
RlLoad ==
    /\ rl_saved # NothingSaved
    /\ rl_saved.raised = None
    /\ rl_loaded = NothingLoaded
    /\ LET w == load_state([rl_w EXCEPT !.prog[2] = rl_w.prog[1]], 2,
                           rl_bundle)
       IN IF w.raised = None
          THEN rl_w' = w /\ rl_loaded' = [status |-> "ok", w |-> w]
          ELSE rl_w' = rl_w /\ rl_loaded' = [status |-> w.raised, w |-> rl_w]
    /\ UNCHANGED <<rl_bundle, rl_saved, oldVars, specVars>>

ReloadNext ==
    \/ RlCreate
    \/ RlStep
    \/ RlSignal
    \/ RlAbort
    \/ RlSave
    \/ RlLoad

ReloadInit == Quiescent /\ OnlySection("reload")

ReloadSpec == ReloadInit /\ [][ReloadNext]_vars

(***************************************************************************)
(* Processes are persisted by pickle persistence adapters, run and         *)
(* terminate; the adapters are told                                        *)
(***************************************************************************)
PersistCommit(w, pid, proc) ==
    /\ pp_fs' = w.fs
    /\ pp_proc' = [pp_proc EXCEPT ![pid] =
                      [proc EXCEPT !.listeners = w.listeners[pid]]]

Live(pid) == pp_proc[pid].state \in {"CREATED", "RUNNING", "WAITING"}

PpPersist ==
    /\ \E a \in Adapters, pid \in PersistedPids :
          /\ Live(pid)
          /\ a \notin pp_proc[pid].persisted
          /\ LET w == persist_process(PersistWorld, a, Proc(pid)) IN
                /\ PersistCommit(w, pid,
                      [pp_proc[pid] EXCEPT !.persisted = @ \cup {a}])
                /\ pp_last' = [adapter |-> a, pid |-> pid,
                               raised |-> w.raised,
                               others |-> pp_proc[pid].persisted,
                               before |-> pp_fs, after |-> w.fs]
    /\ UNCHANGED <<pp_store, notPersist>>

\* The process enters RUNNING: on_process_run
PpRun ==
    /\ \E pid \in PersistedPids :
          /\ pp_proc[pid].state \in {"CREATED", "WAITING"}
          /\ LET proc == [pp_proc[pid] EXCEPT !.state = "RUNNING"]
                 w == Fire(on_process_run, PersistWorld, proc.listeners,
                           [pid |-> pid, state |-> "RUNNING",
                            picklable |-> proc.picklable])
             IN PersistCommit(w, pid, proc)
    /\ UNCHANGED <<pp_store, pp_last, notPersist>>

\* The process enters WAITING: on_process_wait
PpWait ==
    /\ \E pid \in PersistedPids :
          /\ pp_proc[pid].state = "RUNNING"
          /\ LET proc == [pp_proc[pid] EXCEPT !.state = "WAITING"]
                 w == Fire(on_process_wait, PersistWorld, proc.listeners,
                           [pid |-> pid, state |-> "WAITING",
                            picklable |-> proc.picklable])
             IN PersistCommit(w, pid, proc)
    /\ UNCHANGED <<pp_store, pp_last, notPersist>>

\* The process finishes, is aborted or fails: its messages are to be sent
PpTerminate ==
    /\ \E pid \in PersistedPids, end \in {"finish", "abort", "fail"} :
          /\ Live(pid)
          /\ end \in {"finish", "fail"} => pp_proc[pid].state = "RUNNING"
          /\ pp_proc' = [pp_proc EXCEPT
                ![pid].state = IF end = "fail" THEN "FAILED" ELSE "STOPPED",
                ![pid].pending = CASE end = "finish" -> {"finish", "destroy"}
                                   [] end = "abort" -> {"destroy"}
                                   [] end = "fail" -> {"failed", "destroy"}]
    /\ UNCHANGED <<pp_fs, pp_store, pp_last, notPersist>>

\* One of the messages of a terminated process reaches the adapters
PpNotify ==
    /\ \E pid \in PersistedPids :
          \E m \in pp_proc[pid].pending :
             LET w == Deliver(PersistWorld, Proc(pid), m) IN
                PersistCommit(w, pid,
                   [pp_proc[pid] EXCEPT !.pending = @ \ {m},
                                        !.sent = Append(@, m)])
    /\ UNCHANGED <<pp_store, pp_last, notPersist>>

PersistNext ==
    \/ PpPersist
    \/ PpRun
    \/ PpWait
    \/ PpTerminate
    \/ PpNotify

\* The second adapter is made with the directories of the first or its own
PersistInit ==
    /\ Quiescent
    /\ OnlySection("persist")
    /\ pp_fs = [d \in Directories |-> [pid \in PersistedPids |-> NoFile]]
    /\ pp_store \in {st \in [Adapters -> Stores] : st[1] = 1}
    /\ pp_proc \in [PersistedPids -> {NewProc(b) : b \in BOOLEAN}]
    /\ pp_last = NoPersistCall

PersistSpec == PersistInit /\ [][PersistNext]_vars

(***************************************************************************)
(* A process whose class overrides the hooks goes through its lifecycle,   *)
(* and wait ons of an overriding class are made                            *)
(***************************************************************************)
HookDone(w, name) ==
    hk_last' = [step |-> name, tried |-> w.tried, raised |-> w.raised,
                logged |-> w.logged]

\* process._set_state(state): the state is installed, then entered
HkEnter ==
    /\ \E label \in {"CREATED", "RUNNING", "WAITING", "STOPPED", "FAILED"},
          aborted \in BOOLEAN :
          /\ CASE label = "CREATED" -> hk_state = None /\ ~aborted
               [] label = "RUNNING" ->
                     hk_state \in {"CREATED", "WAITING"} /\ ~aborted
               [] label = "WAITING" -> hk_state = "RUNNING" /\ ~aborted
               [] label = "STOPPED" ->
                     \/ hk_state = "RUNNING"
                     \/ hk_state \in {"CREATED", "WAITING"} /\ aborted
               [] label = "FAILED" ->
                     hk_state \in {"CREATED", "RUNNING", "WAITING"} /\ ~aborted
          /\ hk_state' = label
          /\ HookDone(State_enter(HookWorld, label, hk_state, aborted), label)
    /\ UNCHANGED <<hk_forgets, notHook>>

\* process._terminate(), from the execute of STOPPED and of FAILED
HkDestroy ==
    /\ hk_state \in {"STOPPED", "FAILED"}
    /\ hk_state' = "DESTROYED"
    /\ HookDone(CallHook(HookWorld, "on_destroy"), "DESTROYED")
    /\ UNCHANGED <<hk_forgets, notHook>>

\* A wait on is constructed, from its arguments or from a saved bundle
HkWaitOn ==
    /\ \E bundle \in WaitOnBundles :
          HookDone(WaitOn___init__(HookWorld, bundle), "WaitOn")
    /\ UNCHANGED <<hk_forgets, hk_state, notHook>>

HookNext ==
    \/ HkEnter
    \/ HkDestroy
    \/ HkWaitOn

HookInit ==
    /\ Quiescent
    /\ OnlySection("hook")
    /\ hk_forgets \in Overriders
    /\ hk_state = None
    /\ hk_last = NoStep

HookSpec == HookInit /\ [][HookNext]_vars

(***************************************************************************)
(* Processes are submitted to the serial engines; the futures returned are *)
(* asked for their result and exception                                    *)
(***************************************************************************)
\* The run has ended: the future is made unless a BaseException goes through
EngineReturn(f, engine, program, w) ==
    /\ en_fut' = IF w.raised = KeyboardInterrupt
                 THEN en_fut
                 ELSE [en_fut EXCEPT ![f] = Future___init__(engine, program, w)]
    /\ en_run' = [Idle EXCEPT !.w = w]

\* engine.submit(process_class, inputs), up to the first pass of the loop
EnSubmit ==
    /\ en_run.pc = "idle"
    /\ \E f \in EngineFutures, engine \in Engines, program \in EnginePrograms :
          /\ en_fut[f] = NoEngineFuture
          /\ \A g \in EngineFutures : g < f => en_fut[g] # NoEngineFuture
          /\ IF engine = "execution_engine"
             THEN EngineReturn(f, engine, program,
                               Process_run(NewEngineWorld, program))
             ELSE LET w == _start_process(NewEngineWorld, program) IN
                  IF w.raised = None /\ w.retval.kind = "WaitOn"
                  THEN /\ en_run' = [pc |-> "polling", fut |-> f,
                                     program |-> program, w |-> w,
                                     wait_on |-> w.retval, polls |-> 0]
                       /\ UNCHANGED en_fut
                  ELSE EngineReturn(f, engine, program, RunEnd(w))
    /\ UNCHANGED <<en_last, notEngine>>

\* One pass of the loop of _continue_till_finished; the wait on is ready
EnContinue ==
    /\ en_run.pc = "polling"
    /\ en_run.polls < MaxPolls
    /\ LET w == ContinueOnce(en_run.w, en_run.program, en_run.wait_on) IN
          IF w.raised = None /\ w.retval.kind = "WaitOn"
          THEN /\ en_run' = [en_run EXCEPT !.w = w, !.polls = @ + 1]
               /\ UNCHANGED en_fut
          ELSE EngineReturn(en_run.fut, "engine.serial", en_run.program,
                            RunEnd(w))
    /\ UNCHANGED <<en_last, notEngine>>

EnResult ==
    /\ \E f \in EngineFutures :
          /\ en_fut[f] # NoEngineFuture
          /\ en_last' =
                [(IF en_fut[f].engine = "engine.serial"
                  THEN serial_Future_result(en_fut[f])
                  ELSE execution_engine_Future_result(en_fut[f]))
                 EXCEPT !.fut = f]
    /\ UNCHANGED <<en_run, en_fut, notEngine>>

EnException ==
    /\ \E f \in EngineFutures :
          /\ en_fut[f] # NoEngineFuture
          /\ en_last' = [Future_exception(en_fut[f]) EXCEPT !.fut = f]
    /\ UNCHANGED <<en_run, en_fut, notEngine>>

EngineNext ==
    \/ EnSubmit
    \/ EnContinue
    \/ EnResult
    \/ EnException

EngineInit == Quiescent /\ OnlySection("engine")

EngineSpec == EngineInit /\ [][EngineNext]_vars

(***************************************************************************)
(* Wait ons are made for events of the emitters, and the events occur      *)
(***************************************************************************)
PlainEmitters == Emitters \ {Aggregator}

WaitEventWorld ==
    [specific |-> we_specific, wildcard |-> we_wildcard,
     regexs |-> we_regexs, children |-> <<>>, nlisten |-> 0,
     delivered |-> <<>>, script |-> Quiet, order |-> AnyOrder,
     raised |-> None, waitons |-> we_waitons]

WaitEventCommit(w) ==
    /\ we_specific' = w.specific
    /\ we_wildcard' = w.wildcard
    /\ we_regexs' = w.regexs
    /\ we_waitons' = w.waitons

\* WaitOnEvent(emitter, event)
WeNew ==
    /\ \E wo \in WaitOnEvents, em \in PlainEmitters, k \in SubKeys :
          /\ we_waitons[wo] = NotMade
          /\ WaitEventCommit(WaitOnEvent___init__(WaitEventWorld, wo, em, k))
    /\ UNCHANGED <<we_last, notWaitEvent>>

\* emitter.event_occurred(event)
WeOccur ==
    /\ \E em \in PlainEmitters, e \in Events :
          LET w == WaitOn_emitter_event_occurred(WaitEventWorld, em, e) IN
             /\ \A wo \in WaitOnEvents : w.waitons[wo].ncalls <= MaxListens
             /\ WaitEventCommit(w)
             /\ we_last' = [emitter |-> em, event |-> e,
                            delivered |-> w.delivered, raised |-> w.raised,
                            before |-> num_listening(WaitEventWorld, em),
                            after |-> num_listening(w, em)]
    /\ UNCHANGED notWaitEvent

WaitEventNext ==
    \/ WeNew
    \/ WeOccur

WaitEventInit == Quiescent /\ OnlySection("wait_event")

WaitEventSpec == WaitEventInit /\ [][WaitEventNext]_vars

(***************************************************************************)
(* plum/wait.py: one WaitOn shared by threads.  One thread calls wait(),   *)
(* two threads call done(), one thread calls interrupt().  A step is what  *)
(* a thread does between two points at which another thread can run.       *)
(***************************************************************************)
Doers == {"d1", "d2"}
Waiter == "waiter"
Interrupter == "interrupter"
WaitThreads == Doers \cup {Waiter, Interrupter}

\* WaitOn._outcome is None
NoOutcome == <<>>

\* The bundles a wait on is re-created from: the saved outcome
SavedOutcomes == {NoOutcome, <<TRUE, "saved">>}

Interrupted == "Interrupted"

\* wait.py:46-67 __init__: the outcome is None and the event is clear, then
\* init() or load_instance_state(bundle), which calls done() for a saved
\* outcome (wait.py:157-159)
MadeWaitOn(recreate, saved) ==
    IF recreate /\ saved # NoOutcome
    THEN [outcome |-> saved, waiting |-> TRUE, assigned |-> <<saved>>]
    ELSE [outcome |-> NoOutcome, waiting |-> FALSE, assigned |-> <<>>]

\* is_done(), wait.py:69-76
is_done == wt_outcome # NoOutcome

Goto(th, label) == wt_pc' = [wt_pc EXCEPT ![th] = label]

\* wait(timeout) is called
WtCall ==
    /\ wt_pc[Waiter] = "idle"
    /\ Goto(Waiter, "wait:118")
    /\ \E timeout \in {None, "finite"} :
          wt_obs' = [wt_obs EXCEPT !.timeout = timeout,
                                   !.done_at_call = is_done]
    /\ UNCHANGED <<wt_outcome, wt_waiting, wt_lock, notWait>>

\* wait.py:118-122: with the lock held, return True if done, else clear
\* the event
WtLocked ==
    /\ wt_pc[Waiter] = "wait:118"
    /\ wt_lock = None
    /\ IF is_done
       THEN /\ Goto(Waiter, "returned")
            /\ wt_obs' = [wt_obs EXCEPT !.wait = "True"]
            /\ UNCHANGED wt_waiting
       ELSE /\ Goto(Waiter, "wait:124")
            /\ wt_waiting' = FALSE
            /\ wt_obs' = [wt_obs EXCEPT !.cleared = TRUE]
    /\ UNCHANGED <<wt_outcome, wt_lock, notWait>>

\* wait.py:124: self._waiting.wait(timeout) returns True, the event is set
WtWake ==
    /\ wt_pc[Waiter] = "wait:124"
    /\ wt_waiting
    /\ Goto(Waiter, "wait:127")
    /\ UNCHANGED <<wt_outcome, wt_waiting, wt_lock, wt_obs, notWait>>

\* wait.py:124-126: the timeout elapses with the event clear
WtTimeout ==
    /\ wt_pc[Waiter] = "wait:124"
    /\ wt_obs.timeout # None
    /\ ~wt_waiting
    /\ Goto(Waiter, "returned")
    /\ wt_obs' = [wt_obs EXCEPT !.wait = "False"]
    /\ UNCHANGED <<wt_outcome, wt_waiting, wt_lock, notWait>>

\* wait.py:127-131: woken up; True if done, else Interrupted is raised
WtCheck ==
    /\ wt_pc[Waiter] = "wait:127"
    /\ Goto(Waiter, "returned")
    /\ wt_obs' = [wt_obs EXCEPT
                     !.wait = IF is_done THEN "True" ELSE Interrupted]
    /\ UNCHANGED <<wt_outcome, wt_waiting, wt_lock, notWait>>

\* done(success, msg), wait.py:174: the assertion, made without the lock
DnAssert ==
    /\ \E d \in Doers :
          /\ wt_pc[d] = "idle"
          /\ IF is_done
             THEN /\ Goto(d, "returned")
                  /\ wt_obs' = [wt_obs EXCEPT
                                   !.raised[d] = "AssertionError"]
             ELSE /\ Goto(d, "done:176")
                  /\ UNCHANGED wt_obs
    /\ UNCHANGED <<wt_outcome, wt_waiting, wt_lock, notWait>>

\* wait.py:176-177: the lock is taken and the outcome assigned
DnAssign ==
    /\ \E d \in Doers, success \in BOOLEAN :
          /\ wt_pc[d] = "done:176"
          /\ wt_lock = None
          /\ wt_lock' = d
          /\ wt_outcome' = <<success, d>>
          /\ wt_obs' = [wt_obs EXCEPT
                           !.assigned = Append(@, <<success, d>>)]
          /\ Goto(d, "done:178")
    /\ UNCHANGED <<wt_waiting, notWait>>

\* wait.py:178: the event is set and the lock released
DnSet ==
    /\ \E d \in Doers :
          /\ wt_pc[d] = "done:178"
          /\ wt_lock = d
          /\ wt_waiting' = TRUE
          /\ wt_lock' = None
          /\ Goto(d, "returned")
    /\ UNCHANGED <<wt_outcome, wt_obs, notWait>>

\* interrupt() is called
InCall ==
    /\ wt_pc[Interrupter] = "idle"
    /\ Goto(Interrupter, "interrupt:134")
    /\ wt_obs' = [wt_obs EXCEPT
                     !.interrupt = IF is_done THEN "after done"
                                   ELSE "before done",
                     !.interrupt_at = wt_pc[Waiter]]
    /\ UNCHANGED <<wt_outcome, wt_waiting, wt_lock, notWait>>

\* wait.py:134-135: with the lock held the event is set
InSet ==
    /\ wt_pc[Interrupter] = "interrupt:134"
    /\ wt_lock = None
    /\ wt_waiting' = TRUE
    /\ Goto(Interrupter, "returned")
    /\ UNCHANGED <<wt_outcome, wt_lock, wt_obs, notWait>>

WaitNext ==
    \/ WtCall
    \/ WtLocked
    \/ WtWake
    \/ WtTimeout
    \/ WtCheck
    \/ DnAssert
    \/ DnAssign
    \/ DnSet
    \/ InCall
    \/ InSet

\* The wait on was made with init() or re-created from a bundle
WaitInit ==
    /\ Quiescent
    /\ OnlySection("wait")
    /\ \E recreate \in BOOLEAN, saved \in SavedOutcomes :
          LET wo == MadeWaitOn(recreate, saved) IN
             /\ wt_outcome = wo.outcome
             /\ wt_waiting = wo.waiting
             /\ wt_obs = [assigned |-> wo.assigned, wait |-> None,
                          timeout |-> None, done_at_call |-> FALSE,
                          cleared |-> FALSE, interrupt |-> None,
                          interrupt_at |-> None,
                          raised |-> [d \in Doers |-> None]]
    /\ wt_lock = None
    /\ wt_pc = [th \in WaitThreads |-> "idle"]

WaitSpec == WaitInit /\ [][WaitNext]_vars

(***************************************************************************)
(* plum/event.py: users start and stop listening at an emitter and at the  *)
(* aggregator, the emitter is added to the aggregator as a child and       *)
(* removed from it, and the events of a process monitor occur              *)
(***************************************************************************)
\* "finished" is "finish" followed by "ed"
MonitorEvents ==
    {<<"process", ".", "1", ".", "finish", "ed">>,
     <<"process", ".", "1", ".", "stopped">>}

FinishPattern == <<"process", ".", "*", ".", "finish">>

\* What users listen for
MonitorKeys == {FinishPattern, <<"process", ".", "1", ".", "stopped">>}

SubCells == Emitters \X UserListeners \X MonitorKeys

NoSubCalls == [c \in SubCells |-> 0]

TotalCalls(made, em) ==
    Cardinality({x \in SubCells \X (1..MaxListens) :
                    x[1][1] = em /\ x[2] <= made[x[1]]})

SubWorld ==
    [specific |-> sb_specific, wildcard |-> sb_wildcard,
     regexs |-> sb_regexs, children |-> sb_children, nlisten |-> 0,
     delivered |-> <<>>, script |-> Quiet, order |-> AnyOrder,
     raised |-> None]

SubCommit(w) ==
    /\ sb_specific' = w.specific
    /\ sb_wildcard' = w.wildcard
    /\ sb_regexs' = w.regexs
    /\ sb_children' = w.children

\* EmitterAggregator.remove_child(child), event.py:236-245
remove_child(w, child) ==
    IF ~InSeq(w.children, child) THEN Raise(w, "AssertionError")
    ELSE LET w1 == EventEmitter_stop_listening(w, child, AggEventOccurred,
                                               AllEvents)
         IN IF w1.raised # None THEN w1
            ELSE [w1 EXCEPT !.children = SeqRemoveFirst(@, child)]

NoSubEvent == [emitter |-> None, event |-> <<>>, delivered |-> <<>>,
               raised |-> None]

\* emitter.start_listening(listener, event)
SbStart ==
    /\ sb_last.emitter = None
    /\ \E em \in Emitters, l \in UserListeners, k \in MonitorKeys :
          /\ TotalCalls(sb_calls, Aggregator) + TotalCalls(sb_calls, "child")
                < MaxListens
          /\ SubCommit(start_listening(SubWorld, em, l, k))
          /\ sb_calls' = [sb_calls EXCEPT ![<<em, l, k>>] = @ + 1]
    /\ UNCHANGED <<sb_removed, sb_last, notSub>>

\* emitter.stop_listening(listener, event) and
\* emitter.stop_listening(listener)
SbStop ==
    /\ sb_last.emitter = None
    /\ \E em \in Emitters, l \in UserListeners,
          k \in MonitorKeys \cup {AllEvents} :
          /\ SubCommit(stop_listening(SubWorld, em, l, k))
          /\ sb_calls' = [c \in SubCells |->
                            IF /\ c[1] = em
                               /\ c[2] = l
                               /\ k \in {c[3], AllEvents}
                            THEN 0 ELSE sb_calls[c]]
    /\ UNCHANGED <<sb_removed, sb_last, notSub>>

\* aggregator.add_child(child)
SbAddChild ==
    /\ sb_last.emitter = None
    /\ sb_children = <<>>
    /\ sb_removed = {}
    /\ SubCommit(add_child(SubWorld, "child"))
    /\ UNCHANGED <<sb_removed, sb_calls, sb_last, notSub>>

\* aggregator.remove_child(child)
SbRemoveChild ==
    /\ sb_last.emitter = None
    /\ \E child \in Emitters \ {Aggregator} :
          LET w == remove_child(SubWorld, child) IN
             /\ InSeq(sb_children, child)
             /\ SubCommit(w)
             /\ sb_removed' = sb_removed \cup {child}
    /\ UNCHANGED <<sb_calls, sb_last, notSub>>

\* ProcessMonitorEmitter.on_monitored_process_finish / _stopped:
\* emitter.event_occurred("process.1.finished")
SbOccur ==
    /\ sb_last.emitter = None
    /\ \E em \in Emitters, e \in MonitorEvents :
          LET w == event_occurred(SubWorld, em, e) IN
             /\ SubCommit(w)
             /\ sb_last' = [emitter |-> em, event |-> e,
                            delivered |-> w.delivered, raised |-> w.raised]
    /\ UNCHANGED <<sb_removed, sb_calls, notSub>>

\* The caller of event_occurred carries on
SbReturned ==
    /\ sb_last.emitter # None
    /\ sb_last' = NoSubEvent
    /\ UNCHANGED <<sb_specific, sb_wildcard, sb_regexs, sb_children,
                   sb_removed, sb_calls, notSub>>

SubNext ==
    \/ SbStart
    \/ SbStop
    \/ SbAddChild
    \/ SbRemoveChild
    \/ SbOccur
    \/ SbReturned

SubInit ==
    /\ Quiescent
    /\ OnlySection("sub")
    /\ sb_specific = [em \in Emitters |-> EmptyDict]
    /\ sb_wildcard = [em \in Emitters |-> EmptyDict]
    /\ sb_regexs = [em \in Emitters |-> EmptyDict]
    /\ sb_children = <<>>
    /\ sb_removed = {}
    /\ sb_calls = NoSubCalls
    /\ sb_last = NoSubEvent

SubSpec == SubInit /\ [][SubNext]_vars

(***************************************************************************)
(* The owner of the loop removes a task that is suspended on a wait, with  *)
(* loop.remove(task), between two ticks                                    *)
(***************************************************************************)
NotRemoved ==
    [removed |-> FALSE, raised |-> None, wait |-> None, scheduled |-> FALSE,
     errors |-> {}]

\* The done-callback of the task is in the call_soon queue of the loop
Scheduled(t) ==
    \E i \in 1..Len(deferred) : deferred[i].cb = Task_wait_on_future_cb(t)

RemoveTask ==
    /\ phase = "idle"
    /\ \E t \in inLoop :
          LET w == remove(World, t) IN
             /\ wait_on_future[t] # NoFut
             /\ ~rm_removed[t].removed
             /\ Commit(w, t)
             /\ rm_removed' =
                   [rm_removed EXCEPT ![t] =
                       [removed |-> TRUE, raised |-> w.raised,
                        wait |-> fut[wait_on_future[t]].state,
                        scheduled |-> Scheduled(t), errors |-> errors]]
    /\ UNCHANGED <<phase, pending, sweep, calls, notLoop>>

RemoveNext ==
    \/ Next
    \/ RemoveTask

RemoveInit ==
    /\ LoopInit
    /\ \E t \in Tasks : prog[t] # NotCreated
    /\ FutureStart
    /\ EventStart
    /\ OnlySection("remove")
    /\ rm_removed = [t \in Tasks |-> NotRemoved]

RemoveSpec == RemoveInit /\ [][RemoveNext]_vars

(***************************************************************************)
(* plum/process_manager.py: a Future whose process terminates on its       *)
(* worker thread while two other threads call add_done_callback            *)
(***************************************************************************)
Adders == {"a1", "a2"}
Worker == "worker"
Maker == "maker"

PfGoto(th, label) == pf_pc' = [pf_pc EXCEPT ![th] = label]

\* Future.__init__, process_manager.py:24-26: the event is made and the
\* future is added to the listeners of the process
InitListen ==
    /\ pf_pc[Maker] = "init:24"
    /\ pf_process' = [pf_process EXCEPT !.listener = TRUE]
    /\ PfGoto(Maker, "init:27")
    /\ UNCHANGED <<pf_terminated, pf_callbacks, pf_next, pf_invoked,
                   notPFuture>>

\* process_manager.py:27: self._callbacks = []
InitCallbacks ==
    /\ pf_pc[Maker] = "init:27"
    /\ pf_callbacks' = <<>>
    /\ pf_process' = [pf_process EXCEPT !.has_callbacks = TRUE]
    /\ PfGoto(Maker, "init:28")
    /\ UNCHANGED <<pf_terminated, pf_next, pf_invoked, notPFuture>>

\* process_manager.py:28-29: if the process has terminated the event is set
InitCheck ==
    /\ pf_pc[Maker] = "init:28"
    /\ pf_terminated' = (pf_terminated \/ pf_process.terminated)
    /\ PfGoto(Maker, "returned")
    /\ UNCHANGED <<pf_callbacks, pf_next, pf_invoked, pf_process, notPFuture>>

\* add_done_callback(fn), process_manager.py:105: self._terminated.is_set()
AddCheck ==
    /\ pf_pc[Maker] = "returned"
    /\ \E a \in Adders :
          /\ pf_pc[a] = "idle"
          /\ PfGoto(a, IF pf_terminated THEN "add:106" ELSE "add:108")
    /\ UNCHANGED <<pf_terminated, pf_callbacks, pf_next, pf_invoked,
                   pf_process, notPFuture>>

\* process_manager.py:106: fn(self)
AddCall ==
    /\ \E a \in Adders :
          /\ pf_pc[a] = "add:106"
          /\ pf_invoked' = [pf_invoked EXCEPT ![a] = @ + 1]
          /\ PfGoto(a, "returned")
    /\ UNCHANGED <<pf_terminated, pf_callbacks, pf_next, pf_process,
                   notPFuture>>

\* process_manager.py:108: self._callbacks.append(fn)
AddAppend ==
    /\ \E a \in Adders :
          /\ pf_pc[a] = "add:108"
          /\ pf_callbacks' = Append(pf_callbacks, a)
          /\ PfGoto(a, "returned")
    /\ UNCHANGED <<pf_terminated, pf_next, pf_invoked, pf_process,
                   notPFuture>>

\* The process terminates on its worker thread
ProcTerminates ==
    /\ pf_pc[Worker] = "idle"
    /\ pf_process' = [pf_process EXCEPT !.terminated = TRUE]
    /\ PfGoto(Worker, "done_playing")
    /\ UNCHANGED <<pf_terminated, pf_callbacks, pf_next, pf_invoked,
                   notPFuture>>

\* The process tells its listeners that it is done playing:
\* on_process_done_playing calls _terminate, process_manager.py:111-116:
\* self._terminated.set()
TermSet ==
    /\ pf_pc[Worker] = "done_playing"
    /\ IF pf_process.listener
       THEN /\ pf_terminated' = TRUE
            /\ pf_next' = 1
            /\ PfGoto(Worker, "terminate:117")
       ELSE /\ PfGoto(Worker, "returned")
            /\ UNCHANGED <<pf_terminated, pf_next>>
    /\ UNCHANGED <<pf_callbacks, pf_invoked, pf_process, notPFuture>>

\* process_manager.py:117-118: the next pass of for fn in self._callbacks
TermCall ==
    /\ pf_pc[Worker] = "terminate:117"
    /\ IF ~pf_process.has_callbacks
       THEN /\ PfGoto(Worker, "AttributeError")
            /\ UNCHANGED <<pf_next, pf_invoked>>
       ELSE IF pf_next <= Len(pf_callbacks)
       THEN /\ pf_invoked' = [pf_invoked EXCEPT ![pf_callbacks[pf_next]] = @ + 1]
            /\ pf_next' = pf_next + 1
            /\ UNCHANGED pf_pc
       ELSE /\ PfGoto(Worker, "returned")
            /\ UNCHANGED <<pf_next, pf_invoked>>
    /\ UNCHANGED <<pf_terminated, pf_callbacks, pf_process, notPFuture>>

PFutureNext ==
    \/ InitListen
    \/ InitCallbacks
    \/ InitCheck
    \/ AddCheck
    \/ AddCall
    \/ AddAppend
    \/ ProcTerminates
    \/ TermSet
    \/ TermCall

\* Future(process) is about to be made for a process that is playing on its
\* worker thread; self._terminated = threading.Event() is clear
PFutureInit ==
    /\ Quiescent
    /\ OnlySection("pfuture")
    /\ pf_terminated = FALSE
    /\ pf_pc = [th \in Adders \cup {Worker, Maker} |->
                  IF th = Maker THEN "init:24" ELSE "idle"]
    /\ pf_callbacks = <<>>
    /\ pf_next = 0
    /\ pf_invoked = [a \in Adders |-> 0]
    /\ pf_process = [terminated |-> FALSE, listener |-> FALSE,
                     has_callbacks |-> FALSE]

PFutureSpec == PFutureInit /\ [][PFutureNext]_vars

(***************************************************************************)
(* ProcessManager: start, play and play_all called by threads while the    *)
(* workers of the executor take up and end proc.play                       *)
(***************************************************************************)
ManagedPids == {1, 2}
Callers == {"u1", "u2"}
MaxCalls == 4

IdleCall == [at |-> "idle", op |-> "none", pid |-> 0, rest |-> {}, size |-> 0]

FirstOf(pids) == CHOOSE p \in pids : \A q \in pids : p <= q

\* proc.is_playing(): a worker is inside proc.play
is_playing(pid) == pm_plays[pid].running > 0

\* The call of thread c returns or raises
Ends(c, err) ==
    pm_pc' = [pm_pc EXCEPT ![c] = [IdleCall EXCEPT !.at = err]]

\* _play(proc) returned to start, play or play_all; play_all goes on with
\* for info in self._processes.itervalues(), which raises RuntimeError
\* when the dictionary changed its size
Played(c) ==
    LET call == pm_pc[c]
        rest == call.rest \ {call.pid}
    IN  IF call.op # "play_all" \/ rest = {}
        THEN Ends(c, "idle")
        ELSE IF Cardinality(pm_processes) # call.size
        THEN Ends(c, "RuntimeError")
        ELSE pm_pc' = [pm_pc EXCEPT ![c] =
                          [call EXCEPT !.at = "play:249", !.rest = rest,
                                       !.pid = FirstOf(rest)]]

Resting(c) == pm_pc[c].at \notin {"play:249", "play:250"}

\* start(proc), process_manager.py:158-160, up to the call of _play
PmStart ==
    /\ pm_calls.made < MaxCalls
    /\ \E c \in Callers, p \in ManagedPids \ pm_calls.started :
          /\ Resting(c)
          /\ pm_processes' = pm_processes \cup {p}
          /\ pm_calls' = [made |-> pm_calls.made + 1,
                          started |-> pm_calls.started \cup {p}]
          /\ pm_pc' = [pm_pc EXCEPT ![c] =
                          [IdleCall EXCEPT !.at = "play:249", !.op = "start",
                                         !.pid = p]]
    /\ UNCHANGED <<pm_plays, notManager>>

\* play(pid), process_manager.py:170-173, up to the call of _play
PmPlay ==
    /\ pm_calls.made < MaxCalls
    /\ \E c \in Callers, p \in ManagedPids :
          /\ Resting(c)
          /\ IF p \in pm_processes
             THEN pm_pc' = [pm_pc EXCEPT ![c] =
                              [IdleCall EXCEPT !.at = "play:249",
                                             !.op = "play", !.pid = p]]
             ELSE Ends(c, "ValueError")
    /\ pm_calls' = [pm_calls EXCEPT !.made = @ + 1]
    /\ UNCHANGED <<pm_processes, pm_plays, notManager>>

\* play_all(), process_manager.py:176-177, up to the first call of _play
PmPlayAll ==
    /\ pm_calls.made < MaxCalls
    /\ \E c \in Callers :
          /\ Resting(c)
          /\ IF pm_processes = {}
             THEN Ends(c, "idle")
             ELSE pm_pc' = [pm_pc EXCEPT ![c] =
                              [at |-> "play:249", op |-> "play_all",
                               pid |-> FirstOf(pm_processes),
                               rest |-> pm_processes,
                               size |-> Cardinality(pm_processes)]]
    /\ pm_calls' = [pm_calls EXCEPT !.made = @ + 1]
    /\ UNCHANGED <<pm_processes, pm_plays, notManager>>

\* _play, process_manager.py:249: if not proc.is_playing()
PlayCheck ==
    /\ \E c \in Callers :
          /\ pm_pc[c].at = "play:249"
          /\ IF is_playing(pm_pc[c].pid)
             THEN Played(c)
             ELSE pm_pc' = [pm_pc EXCEPT ![c].at = "play:250"]
    /\ UNCHANGED <<pm_processes, pm_plays, pm_calls, notManager>>

\* _play, process_manager.py:250-251: the lookup of the process's record,
\* a KeyError when it was deleted (a ValueError out of play), and
\* self._executor.submit(proc.play)
PlaySubmit ==
    /\ \E c \in Callers :
          /\ pm_pc[c].at = "play:250"
          /\ IF pm_pc[c].pid \notin pm_processes
             THEN /\ Ends(c, IF pm_pc[c].op = "play" THEN "ValueError"
                                                     ELSE "KeyError")
                  /\ UNCHANGED pm_plays
             ELSE /\ pm_plays' = [pm_plays EXCEPT
                                     ![pm_pc[c].pid].submitted = @ + 1]
                  /\ Played(c)
    /\ UNCHANGED <<pm_processes, pm_calls, notManager>>

\* A worker of the executor takes up a submitted proc.play
WorkerBegins ==
    /\ \E p \in ManagedPids :
          /\ pm_plays[p].submitted > 0
          /\ pm_plays' = [pm_plays EXCEPT ![p] =
                             [submitted |-> @.submitted - 1,
                              running |-> @.running + 1]]
    /\ UNCHANGED <<pm_processes, pm_pc, pm_calls, notManager>>

\* proc.play returns on its worker because the process was paused
WorkerPaused ==
    /\ \E p \in ManagedPids :
          /\ pm_plays[p].running > 0
          /\ pm_plays' = [pm_plays EXCEPT ![p].running = @ - 1]
    /\ UNCHANGED <<pm_processes, pm_pc, pm_calls, notManager>>

\* The process stops or fails on its worker: on_process_stop or
\* on_process_fail calls _delete_process, process_manager.py:237-244 and
\* 279-280, and proc.play returns
WorkerStops ==
    /\ \E p \in ManagedPids :
          /\ pm_plays[p].running > 0
          /\ p \in pm_processes
          /\ pm_processes' = pm_processes \ {p}
          /\ pm_plays' = [pm_plays EXCEPT ![p].running = @ - 1]
    /\ UNCHANGED <<pm_pc, pm_calls, notManager>>

ManagerNext ==
    \/ PmStart
    \/ PmPlay
    \/ PmPlayAll
    \/ PlayCheck
    \/ PlaySubmit
    \/ WorkerBegins
    \/ WorkerPaused
    \/ WorkerStops

\* ProcessManager(): no process, nothing submitted to the executor
ManagerInit ==
    /\ Quiescent
    /\ OnlySection("manager")
    /\ pm_processes = {}
    /\ pm_plays = [p \in ManagedPids |-> [submitted |-> 0, running |-> 0]]
    /\ pm_pc = [c \in Callers |-> IdleCall]
    /\ pm_calls = [made |-> 0, started |-> {}]

ManagerSpec == ManagerInit /\ [][ManagerNext]_vars

(***************************************************************************)
(* PollingEmitter: start_listening, stop_listening and clear_all_listeners *)
(* called by threads while the threads of its timers run _poll.  Every     *)
(* method holds _state_lock for its whole body, so each is one step.       *)
(***************************************************************************)
PollListeners == {"l1", "l2"}
MaxTimers == 4
NoTimer == 0

\* What poll() of the subclass does: nothing to the emitter, or it ends the
\* listening, as the comment at event.py:310 foresees
PollBodies == {"nothing", "clear_all_listeners"}

PollWorld ==
    [listeners |-> pe_listeners, flags |-> pe_flags, timers |-> pe_timers,
     log |-> pe_log]

PollCommit(w) ==
    /\ pe_listeners' = w.listeners
    /\ pe_flags' = w.flags
    /\ pe_timers' = w.timers
    /\ pe_log' = w.log
    /\ UNCHANGED notPoll

\* threading.Timer(interval, self._poll) and its start(): a new thread that
\* waits for the interval
StartTimer(w) ==
    [w EXCEPT !.timers = Append(@, "waiting"),
              !.flags.timer = Len(w.timers) + 1]

\* Timer.cancel(): a timer that still waits will not call its function, one
\* that has gone past its wait is not held back
CancelTimer(w, t) ==
    IF w.timers[t] = "waiting"
    THEN [w EXCEPT !.timers[t] = "cancelled"]
    ELSE w

\* event.py:346-350
_start_polling(w) ==
    StartTimer([w EXCEPT !.flags.stop = FALSE, !.flags.polling = TRUE])

\* event.py:352-357
_stop_polling(w) ==
    IF w.flags.polling
    THEN [CancelTimer(w, w.flags.timer) EXCEPT
             !.flags = [stop |-> TRUE, polling |-> FALSE, timer |-> NoTimer]]
    ELSE w

\* event.py:331-336; EventEmitter.clear_all_listeners, event.py:76-78
poll_clear_all_listeners(w) ==
    _stop_polling([w EXCEPT !.listeners = {}])

\* event.py:359-367, run by timer t with a poll() that does body
_poll(w, t, body) ==
    IF w.flags.stop
    THEN w
    ELSE LET called == [w EXCEPT !.log =
                           [polled |-> @.polled \cup {t},
                            idle |-> @.idle \/ w.listeners = {}]]
             after == IF body = "clear_all_listeners"
                      THEN poll_clear_all_listeners(called)
                      ELSE called
         IN  IF after.flags.stop THEN after ELSE StartTimer(after)

\* start_listening(listener), event.py:317-322
PeStartListening ==
    \E l \in PollListeners :
        /\ pe_flags.polling \/ Len(pe_timers) < MaxTimers
        /\ LET w == [PollWorld EXCEPT !.listeners = @ \cup {l}]
           IN  PollCommit(IF w.flags.polling THEN w ELSE _start_polling(w))

\* stop_listening(listener), event.py:324-329, once the emitter was listened
\* to
PeStopListening ==
    \E l \in PollListeners :
        /\ pe_timers # <<>>
        /\ LET w == [PollWorld EXCEPT !.listeners = @ \ {l}]
           IN  PollCommit(IF w.listeners = {} THEN _stop_polling(w) ELSE w)

\* clear_all_listeners(), event.py:331-336
PeClearAllListeners ==
    /\ pe_listeners # {}
    /\ PollCommit(poll_clear_all_listeners(PollWorld))

\* The wait of a timer's thread is over and it was not cancelled: it goes on
\* to call self._poll, which waits for _state_lock
TimerFires ==
    /\ Len(pe_timers) < MaxTimers
    /\ \E t \in 1..Len(pe_timers) :
          /\ pe_timers[t] = "waiting"
          /\ pe_timers' = [pe_timers EXCEPT ![t] = "fired"]
    /\ UNCHANGED <<pe_listeners, pe_flags, pe_log, notPoll>>

\* The timer's thread gets _state_lock and runs _poll
TimerRuns ==
    \E t \in 1..Len(pe_timers), body \in PollBodies :
        /\ pe_timers[t] = "fired"
        /\ PollCommit([_poll(PollWorld, t, body) EXCEPT !.timers[t] = "done"])

PollNext ==
    \/ PeStartListening
    \/ PeStopListening
    \/ PeClearAllListeners
    \/ TimerFires
    \/ TimerRuns

\* PollingEmitter.__init__, event.py:299-312
PollInit ==
    /\ Quiescent
    /\ OnlySection("poll")
    /\ pe_listeners = {}
    /\ pe_flags = [stop |-> FALSE, polling |-> FALSE, timer |-> NoTimer]
    /\ pe_timers = <<>>
    /\ pe_log = [polled |-> {}, idle |-> FALSE]

PollSpec == PollInit /\ [][PollNext]_vars

(***************************************************************************)
(* Observations used by the properties                                     *)
(***************************************************************************)
Processes == {t \in Tasks : prog[t] \in ProcessPrograms}

History(t) == SelectSeq(log[t], LAMBDA x : x \in ProcessState)

Hooks(t) == SelectSeq(log[t], LAMBDA x : x \notin ProcessState)

Count(s, x) == Cardinality({i \in 1..Len(s) : s[i] = x})

Raised(t, exc) == [task |-> t, exc |-> exc] \in errors

NoErrors(t) == \A e \in errors : e.task # t

\* loop.tick() is calling tick() of task t in this step
Ticks(t) ==
    /\ phase = "sweep"
    /\ sweep # <<>>
    /\ Head(sweep) = t
    /\ sweep' = Tail(sweep)

\* Task t is suspended on a wait whose future is not done
Suspended(t) ==
    /\ wait_on_future[t] # NoFut
    /\ fut[wait_on_future[t]].state = "PENDING"

(***************************************************************************)
(* C1.  Every change of a process's lifecycle state is one of              *)
(* CREATED->RUNNING; RUNNING->WAITING, RUNNING->RUNNING, RUNNING->STOPPED, *)
(* RUNNING->FAILED; WAITING->RUNNING, WAITING->STOPPED, WAITING->FAILED,   *)
(* in every execution, aborted and failing ones included.                  *)
(***************************************************************************)
AllowedTransitions ==
    {<<"CREATED", "RUNNING">>,
     <<"RUNNING", "WAITING">>, <<"RUNNING", "RUNNING">>,
     <<"RUNNING", "STOPPED">>, <<"RUNNING", "FAILED">>,
     <<"WAITING", "RUNNING">>, <<"WAITING", "STOPPED">>,
     <<"WAITING", "FAILED">>}

C1_OnlyAllowedTransitions ==
    \A t \in Processes :
        \A i \in 1..(Len(History(t)) - 1) :
            <<History(t)[i], History(t)[i + 1]>> \in AllowedTransitions

(***************************************************************************)
(* C2.  STOPPED and FAILED are terminal: a process in STOPPED or FAILED    *)
(* keeps its state object, and the done-callback of a wait it was aborted  *)
(* out of neither installs a new state nor raises.                         *)
(***************************************************************************)
C2_TerminalStatesAreFinal ==
    [][\A t \in Processes :
          pstate[t].label \in {"STOPPED", "FAILED"} =>
              /\ pstate'[t] = pstate[t]
              /\ Raised(t, "RuntimeError")' = Raised(t, "RuntimeError")]_vars

(***************************************************************************)
(* C3.  When the step function of a RUNNING process raises e, the process  *)
(* becomes FAILED with exc_info = e; a FAILED process stays FAILED (it     *)
(* never becomes STOPPED); and always FAILED implies exc_info is set and   *)
(* STOPPED implies exc_info is not set.                                    *)
(***************************************************************************)
StepRaises(t) ==
    /\ nsteps'[t] = nsteps[t] + 1
    /\ pstate[t].label = "RUNNING"
    /\ UserFunc(prog[t], pstate[t].exec_func).kind = "raise"

FutureFailedWith(f, e) ==
    /\ fut[f].state = "FINISHED"
    /\ fut[f].exception = e
    /\ fut[f].result = None

C4_StepExceptionReachesFuture ==
    \A t \in Tasks :
        (stepExc[t] # None /\ (prog[t] = "PlainTask" \/ t \notin inLoop)) =>
            /\ t \notin inLoop
            /\ FutureFailedWith(TaskFut(t), stepExc[t])

(***************************************************************************)
(* C5.  A tick of a task that is in the loop and whose future is cancelled *)
(* removes the task from the loop and does not invoke step().              *)
(***************************************************************************)
C5_CancelledTaskIsRemoved ==
    [][\A t \in Tasks :
          (Ticks(t) /\ t \in inLoop /\ fut[TaskFut(t)].state = "CANCELLED") =>
              /\ t \notin inLoop'
              /\ nsteps'[t] = nsteps[t]]_vars

(***************************************************************************)
(* C6.  When the wait of a WAITING process with a null continuation        *)
(* completes and nobody aborted or cancelled it, the process is STOPPED    *)
(* without any error, on_stop was delivered once, and once the task has    *)
(* left the loop its future holds the outputs.                             *)
(***************************************************************************)
StoppedFromWaiting(t) ==
    LET h == History(t) IN
    /\ Len(h) >= 2
    /\ h[Len(h) - 1] = "WAITING"
    /\ h[Len(h)] = "STOPPED"

C6_NullCallbackStops ==
    \A t \in Processes :
        (StoppedFromWaiting(t) /\ ~interfered(t)) =>
            /\ NoErrors(t)
            /\ Count(Hooks(t), "on_stop") = 1
            /\ t \notin inLoop =>
                  /\ fut[TaskFut(t)].state = "FINISHED"
                  /\ fut[TaskFut(t)].result = Outputs

(***************************************************************************)
(* C7.  After abort(msg) on a WAITING process and one whole loop tick, the *)
(* process is STOPPED with aborted = true and abort_msg = msg, on_stop was *)
(* delivered exactly once, the wait future it held is cancelled (unless    *)
(* the wait had completed before the abort), the task has left the loop    *)
(* and nothing was raised.                                                 *)
(***************************************************************************)
C7_AbortWhileWaiting ==
    \A t \in Processes :
        (/\ calls[t].aborted_in = "WAITING"
         /\ calls[t].ticked
         /\ ~calls[t].cancelled
         /\ phase = "idle") =>
            /\ pstate[t].label = "STOPPED"
            /\ pstate[t].abort
            /\ pstate[t].abort_msg = calls[t].abort_msg
            /\ Count(Hooks(t), "on_stop") = 1
            /\ calls[t].held # NoFut =>
                  \/ fut[calls[t].held].state = "CANCELLED"
                  \/ fut[calls[t].held].result = "signalled"
            /\ t \notin inLoop
            /\ NoErrors(t)

(***************************************************************************)
(* C8.  While a task is suspended on a wait whose future is not done, it   *)
(* is not in the loop's ticking set and its step() is not invoked; no task *)
(* has step() invoked more than once in one loop tick.                     *)
(***************************************************************************)
C8_SuspendedTaskDoesNotTick ==
    /\ [](\A t \in Tasks :
            /\ Suspended(t) => ~InSeq(ticking, t)
            /\ tickSteps[t] <= 1)
    /\ [][\A t \in Tasks : Suspended(t) => nsteps'[t] = nsteps[t]]_vars

C8_Witness ==
    \E t \in Tasks :
        /\ Suspended(t)
        /\ nsteps[t] >= 1
        /\ t \in inLoop
        /\ ~InSeq(ticking, t)
        /\ phase = "sweep"

(***************************************************************************)
(* C9.  A task suspended on a wait whose future is done - also one that    *)
(* was done already when the future was acquired - is eventually ticking   *)
(* again with its stored wait future cleared.                              *)
(***************************************************************************)
WaitCompleted(t) ==
    /\ wait_on_future[t] # NoFut
    /\ fut[wait_on_future[t]].state # "PENDING"

Resumed(t) ==
    /\ wait_on_future[t] = NoFut
    /\ InSeq(ticking, t)

ResumedOnceAfterWaiting(t) ==
    /\ Count(log[t], "on_resume") = 1
    /\ \E i \in 4..Len(log[t]) :
          /\ log[t][i] = "on_resume"
          /\ log[t][i - 1] = "RUNNING"
          /\ log[t][i - 2] = "on_wait"
          /\ log[t][i - 3] = "WAITING"

CheckpointRunDone(t) ==
    /\ prog[t] = "ProcessWithCheckpoint"
    /\ ~interfered(t)
    /\ fut[TaskFut(t)].state # "PENDING"

C10_CheckpointRun ==
    /\ [](\A t \in Tasks :
            CheckpointRunDone(t) =>
                /\ t \notin inLoop
                /\ fut[TaskFut(t)].result = Outputs
                /\ History(t) = <<"CREATED", "RUNNING", "WAITING",
                                  "RUNNING", "STOPPED">>
                /\ ResumedOnceAfterWaiting(t))
    /\ \A t \in Tasks :
          (prog[t] = "ProcessWithCheckpoint") ~>
              (fut[TaskFut(t)].state # "PENDING" \/ interfered(t))

C10_Witness == \E t \in Tasks : CheckpointRunDone(t)

(***************************************************************************)
(* Positions in the log of a process                                       *)
(***************************************************************************)
\* The entry at position i of the log of t, None beyond its end
LogAt(t, i) == IF i \in 1..Len(log[t]) THEN log[t][i] ELSE None

\* The positions at which the log of t records the entry into a state
EntriesInto(t, label) == {i \in 1..Len(log[t]) : log[t][i] = label}

\* The state the process was in when it entered the state logged at i
PreviousState(t, i) ==
    LET before == {j \in 1..(i - 1) : log[t][j] \in ProcessState} IN
    IF before = {} THEN None
    ELSE log[t][CHOOSE j \in before : \A k \in before : k <= j]

(***************************************************************************)
(* C11.  A process that reached FAILED and has left the loop had on_stop   *)
(* and on_destroy delivered, each exactly once.                            *)
(***************************************************************************)
C11_FailedDeliversStopAndDestroy ==
    \A t \in Processes :
        (EntriesInto(t, "FAILED") # {} /\ t \notin inLoop) =>
            /\ Count(log[t], "on_stop") = 1
            /\ Count(log[t], "on_destroy") = 1

(***************************************************************************)
(* C12.  Every entry into STOPPED delivers on_abort (if and only if the    *)
(* stop is an abort) or on_finish (if and only if it is not, and then the  *)
(* previous state is RUNNING) and then on_stop; on_finish is never         *)
(* delivered for an aborted process and on_stop never comes first.         *)
(***************************************************************************)
C12_StoppedEntryHooks ==
    \A t \in Processes :
        /\ \A i \in EntriesInto(t, "STOPPED") :
              /\ LogAt(t, i + 1) \in {"on_abort", "on_finish"}
              /\ LogAt(t, i + 2) = "on_stop"
              /\ LogAt(t, i + 1) = "on_finish" =>
                    PreviousState(t, i) = "RUNNING"
        /\ \A i \in EntriesInto(t, "on_stop") :
              LogAt(t, i - 1) \in {"on_abort", "on_finish"}
        /\ calls[t].aborted_in # None => Count(log[t], "on_finish") = 0
        /\ calls[t].aborted_in = None => Count(log[t], "on_abort") = 0

(***************************************************************************)
(* C13.  An entry into RUNNING delivers on_start exactly when the previous *)
(* state is CREATED, on_resume exactly when it is WAITING, and then        *)
(* on_run; from RUNNING it delivers on_run alone; from any other state it  *)
(* raises an error and delivers no hook.                                   *)
(***************************************************************************)
RejectedEntry(t, i) == PreviousState(t, i) \notin {"CREATED", "WAITING", "RUNNING"}

C14_CallbacksScheduledOnceInOrder ==
    IF f_fut[TheFuture].state = "PENDING"
    THEN /\ f_scheduled = <<>>
         /\ f_fut[TheFuture].callbacks = f_registered
    ELSE /\ f_scheduled = f_registered
         /\ f_fut[TheFuture].callbacks = <<>>

C14_Witness ==
    /\ f_fut[TheFuture].state = "CANCELLED"
    /\ Len(f_registered) = MaxCallbacks
    /\ f_last.op = "add_done_callback"
    /\ f_ran # <<>>
    /\ f_scheduled = f_registered

(***************************************************************************)
(* C15.  add_done_callback(fn) on a future that is done does not call fn:  *)
(* it appends fn to the loop's call_soon queue, and the next drain of the  *)
(* queue calls it.                                                         *)
(***************************************************************************)
C15_DoneCallbackIsDeferred ==
    [][/\ (f_last'.op = "add_done_callback"
             /\ f_fut[TheFuture].state # "PENDING") =>
            /\ f_ran' = f_ran
            /\ f_deferred' =
                  Append(f_deferred, [cb |-> f_last'.arg, fut |-> TheFuture])
       /\ f_last'.op = "tick" =>
            /\ f_ran' = f_ran \o [i \in 1..Len(f_deferred) |->
                                    f_deferred[i].cb]
            /\ f_deferred' = <<>>]_vars

C15_Witness ==
    /\ f_last.op = "add_done_callback"
    /\ f_fut[TheFuture].state = "FINISHED"
    /\ f_deferred = <<[cb |-> f_last.arg, fut |-> TheFuture]>>
    /\ f_ran # <<>>

(***************************************************************************)
(* C16.  cancel() on a pending future returns true, makes it CANCELLED and *)
(* schedules its callbacks; on a future that is done it returns false and  *)
(* changes nothing and schedules nothing.                                  *)
(***************************************************************************)
C16_CancelOnlyWhenPending ==
    [][f_last'.op = "cancel" =>
          IF f_fut[TheFuture].state = "PENDING"
          THEN /\ f_last'.ret = "True"
               /\ f_fut'[TheFuture] =
                     [f_fut[TheFuture] EXCEPT !.state = "CANCELLED",
                                              !.callbacks = <<>>]
               /\ f_scheduled' = f_scheduled \o f_fut[TheFuture].callbacks
          ELSE /\ f_last'.ret = "False"
               /\ f_fut' = f_fut
               /\ f_deferred' = f_deferred
               /\ f_scheduled' = f_scheduled]_vars

C16_Witness ==
    /\ f_last.op = "cancel"
    /\ f_last.ret = "False"
    /\ f_fut[TheFuture].state = "FINISHED"
    /\ f_fut[TheFuture].result = "result"
    /\ f_scheduled # <<>>

(***************************************************************************)
(* Observations of the last event_occurred call                            *)
(***************************************************************************)
\* What listener l was listening for at emitter em when the call began
ListenedFor(em, l) ==
    {k \in DOMAIN e_last.specific[em] : l \in e_last.specific[em][k]}
        \cup {k \in DOMAIN e_last.wildcard[em] : l \in e_last.wildcard[em][k]}

\* The subscriptions of l at em that the event of the call matches
MatchingSubscriptions(em, l) ==
    {k \in ListenedFor(em, l) :
        IF contains_wildcard(k) THEN re_match(re_compile(k), e_last.event)
        ELSE k = e_last.event}

\* The number of times the call delivered the event to l
Received(l) ==
    Cardinality({i \in 1..Len(e_last.delivered) :
                    e_last.delivered[i].listener = l})

\* The call was made on an emitter without children
PlainCall == e_last.emitter = Aggregator /\ e_last.children = <<>>

(***************************************************************************)
(* C17.  When a listener starts or stops listening while an event is being *)
(* delivered, the delivery does not fail, a listener that had no matching  *)
(* subscription when the delivery began does not receive the event, and a  *)
(* listener that had one matching subscription receives it exactly once.   *)
(***************************************************************************)
C17_DeliveryToSnapshot ==
    (PlainCall /\ e_last.script.do \in {"start_listening", "stop_listening"})
        => /\ e_last.raised = None
           /\ \A l \in UserListeners :
                 Cardinality(MatchingSubscriptions(Aggregator, l)) \in {0, 1}
                    => Received(l) = Cardinality(MatchingSubscriptions(Aggregator, l))

(***************************************************************************)
(* C18.  When a listener raises an exception that is not a signature error *)
(* the event is still delivered to every other matching listener and       *)
(* event_occurred returns normally; a listener with a wrong signature      *)
(* makes event_occurred fail.                                              *)
(***************************************************************************)
C18_ListenerErrorsAreSkipped ==
    /\ (PlainCall /\ e_last.script.do = "raise") =>
          /\ e_last.raised = None
          /\ \A l \in UserListeners :
                Received(l) = Cardinality(MatchingSubscriptions(Aggregator, l))
    /\ (/\ PlainCall
        /\ e_last.script.do = "badsig"
        /\ MatchingSubscriptions(Aggregator, e_last.script.actor) # {}) =>
          e_last.raised # None

(***************************************************************************)
(* C19.  A listener that listens for process.<pid>.* and nothing else      *)
(* receives every event of the process <pid> and no event of a process     *)
(* with another pid.                                                       *)
(***************************************************************************)
C19_PidPatternMatchesOnlyPid ==
    (PlainCall /\ e_last.script = Quiet) =>
        \A l \in UserListeners, pid \in Pids :
            ListenedFor(Aggregator, l) = {PidPattern(pid)} =>
                IF e_last.pid = pid THEN Received(l) = 1
                ELSE Received(l) = 0

(***************************************************************************)
(* C20.  An event that occurs on a child of the aggregator is delivered    *)
(* exactly once, and without error, to a listener that has one matching    *)
(* subscription at the aggregator, whether the child was added before or   *)
(* after the listener subscribed.                                          *)
(***************************************************************************)
C20_ChildEventsReachListener ==
    (/\ e_last.emitter = "child"
     /\ e_last.children = <<"child">>
     /\ e_last.script = Quiet) =>
        \A l \in UserListeners :
            Cardinality(MatchingSubscriptions(Aggregator, l)) = 1 =>
                /\ e_last.raised = None
                /\ Received(l) = 1

(***************************************************************************)
(* C21.  On a sealed ProcessSpec every builder operation fails and leaves  *)
(* the inputs, the outputs, the validator and the deterministic flag as    *)
(* they were, and the spec stays sealed.                                   *)
(***************************************************************************)
BuilderOps ==
    {"input", "dynamic_input", "remove_input", "no_dynamic_input", "output",
     "dynamic_output", "remove_output", "no_dynamic_output",
     "set_deterministic", "validator"}

C21_SealedSpecIsFrozen ==
    /\ (ps_last.before.sealed /\ ps_last.op \in BuilderOps) =>
          /\ ps_last.raised # None
          /\ ps_spec = ps_last.before
    /\ ps_last.before.sealed => ps_spec.sealed

(***************************************************************************)
(* C22.  validate(inputs) returns (True, None) exactly when (a) the spec   *)
(* has a dynamic input or every key of inputs is a declared input, (b)     *)
(* every declared port validates its value and (c) the validator, if there *)
(* is one, accepts.  The first of (a), (b), (c) that fails gives the       *)
(* message, and the validator is called only when (a) and (b) passed.      *)
(***************************************************************************)
KeysExpected ==
    \/ DynamicName \in DOMAIN ps_last.before.inputs
    \/ DOMAIN ps_last.inputs \subseteq DOMAIN ps_last.before.inputs

FailingPorts ==
    {n \in DOMAIN ps_last.before.inputs :
        Port_validate(n, ps_last.before.inputs[n],
                      Get(ps_last.inputs, n)).ok = "False"}

C22_ValidateChecksInOrder ==
    ps_last.op = "validate" =>
        /\ ps_last.raised = None
        /\ ps_spec = ps_last.before
        /\ ps_last.ret.ok = "True" <=>
              /\ KeysExpected
              /\ FailingPorts = {}
              /\ ps_last.before.validator # "reject"
        /\ ps_last.ret.ok = "True" => ps_last.ret.msg = None
        /\ ~KeysExpected =>
              /\ ps_last.ret = Invalid("Unexpected inputs found")
              /\ ps_last.called = 0
        /\ (KeysExpected /\ FailingPorts # {}) =>
              /\ \E n \in FailingPorts :
                    ps_last.ret = Port_validate(n, ps_last.before.inputs[n],
                                                Get(ps_last.inputs, n))
              /\ ps_last.called = 0
        /\ (KeysExpected /\ FailingPorts = {}) =>
              /\ ps_last.called =
                    IF ps_last.before.validator = None THEN 0 ELSE 1
              /\ ps_last.before.validator = "reject" =>
                    ps_last.ret = Invalid("rejected")

\* Inputs that pass the first two checks were rejected by the validator
C22_Witness ==
    /\ ps_last.op = "validate"
    /\ ps_last.before.validator = "reject"
    /\ DOMAIN ps_last.inputs \cap DOMAIN ps_last.before.inputs # {}
    /\ ps_last.called = 1
    /\ ps_last.ret.ok = "False"

(***************************************************************************)
(* C23.  load_state applied to the bundle that the state of a process was  *)
(* saved to succeeds, and gives a state with the same label that saves to  *)
(* the same bundle (the same exec_func, wait-on outcome, callback, abort,  *)
(* abort_msg and exc_info).  The wait-on of a waiting process is one that   *)
(* can be saved.                                                           *)
(***************************************************************************)
C23_LoadRestoresSavedState ==
    (rl_loaded # NothingLoaded /\ rl_bundle.wait_on.class_name # "event") =>
        /\ rl_loaded.status = "ok"
        /\ rl_loaded.w.pstate[2].label = rl_saved.state.label
        /\ save_instance_state(rl_loaded.w, rl_loaded.w.pstate[2])
              = Saved(rl_bundle)

(***************************************************************************)
(* C24.  A process re-created from the bundle of a process that was saved  *)
(* while RUNNING or WAITING goes through the same states and hooks as the  *)
(* original does from the point where it was saved.                        *)
(***************************************************************************)
IsPrefix(s, r) == Len(s) <= Len(r) /\ SubSeq(r, 1, Len(s)) = s

SinceSaved == SubSeq(rl_w.log[1], rl_saved.mark + 1, Len(rl_w.log[1]))

C24_ReloadedRunsAsOriginal ==
    (/\ rl_loaded.status = "ok"
     /\ rl_saved.state.label \in {"RUNNING", "WAITING"}) =>
        \/ IsPrefix(rl_w.log[2], SinceSaved)
        \/ IsPrefix(SinceSaved, rl_w.log[2])

(***************************************************************************)
(* C25.  Saving a process that waits on an Unsavable wait-on (one that     *)
(* waits for an event) fails with Unsupported and saves nothing, and       *)
(* loading such a wait-on from a bundle fails with Unsupported.            *)
(***************************************************************************)
C25_UnsavableWaitOnIsNotSaved ==
    /\ (/\ rl_saved.state.label = "WAITING"
        /\ rl_w.fut[rl_saved.state.wait_on].kind = "event") =>
          /\ rl_saved.raised = "Unsupported"
          /\ rl_bundle = NoBundle
    /\ (/\ rl_loaded # NothingLoaded
        /\ rl_bundle.wait_on.class_name = "event") =>
          rl_loaded.status = "Unsupported"

\* C26: persisting a live process through a second adapter while a first
\* adapter already persists it raises LockError, and the pickle the first
\* adapter keeps for that pid is left as it was.
C26_SecondAdapterGetsLockError ==
    (pp_last.adapter # 0 /\ pp_last.others # {}) =>
        /\ pp_last.raised = "LockError"
        /\ \A a \in pp_last.others :
              pp_last.after[get_running_path(a)][pp_last.pid]
                 = pp_last.before[get_running_path(a)][pp_last.pid]

\* The files adapter a has for pid, by kind of directory
Has(a, kind, pid) == pp_fs[<<kind, pp_store[a]>>][pid] # NoFile

\* C27: the pickle of a persisted process is in the running directory while
\* the process is live; once the process has terminated and its finish,
\* failed and destroy messages were delivered, in whatever order, the pickle
\* is not in the running directory and is in the finished directory only if
\* the process stopped, in the failed directory only if it failed.
C27_PickleFollowsProcess ==
    \A pid \in PersistedPids : \A a \in pp_proc[pid].persisted :
        /\ Live(pid) => Has(a, "running", pid)
        /\ (~Live(pid) /\ pp_proc[pid].pending = {}) =>
              /\ ~Has(a, "running", pid)
              /\ Has(a, "finished", pid) <=> pp_proc[pid].state = "STOPPED"
              /\ Has(a, "failed", pid) <=> pp_proc[pid].state = "FAILED"

\* The hooks whose override was called by the last step and did not call
\* the base implementation
Forgotten ==
    {h \in hk_forgets : \E i \in 1..Len(hk_last.tried) : hk_last.tried[i] = h}

\* C28: a lifecycle step (entering a state, terminating, constructing a
\* wait on) raises AssertionError if an override it called returned without
\* calling the base implementation, and raises no AssertionError if every
\* override it called did call the base.
C28_ForgottenBaseIsDetected ==
    hk_last.step # None =>
        (hk_last.raised = "AssertionError" <=> Forgotten # {})

\* C29: for every future an engine returned: if the process raised e then
\* result() raises e and exception() returns e; if the process completed
\* without raising then result() returns its outputs and exception()
\* returns None.
C29_FutureReportsOutcome ==
    en_last.call # None =>
        LET future == en_fut[en_last.fut] IN
        IF future.program.end = "raise"
        THEN /\ en_last.call = "result" => en_last.raised = UserException
             /\ en_last.call = "exception" =>
                   en_last.ret = UserException /\ en_last.raised = None
        ELSE /\ en_last.raised = None
             /\ en_last.call = "result" => en_last.ret = Outputs
             /\ en_last.call = "exception" => en_last.ret = None

\* Wait on wo is still listening at some emitter
Subscribed(wo) ==
    \E em \in Emitters :
       \/ \E k \in DOMAIN we_specific[em] : wo \in we_specific[em][k]
       \/ \E k \in DOMAIN we_wildcard[em] : wo \in we_wildcard[em][k]

\* The wait ons the last occurrence was delivered to
Notified ==
    {wo \in WaitOnEvents :
        \E i \in 1..Len(we_last.delivered) : we_last.delivered[i].listener = wo}

\* C30: once a WaitOnEvent has received its event it is no longer
\* subscribed on the emitter, no later occurrence is delivered to it, its
\* done() was invoked exactly once, and the delivery took one subscription
\* off the emitter's count.
C30_WaitOnEventUnsubscribes ==
    /\ \A wo \in WaitOnEvents :
          we_waitons[wo].received # <<>> =>
             /\ ~Subscribed(wo)
             /\ we_waitons[wo].ncalls = 1
             /\ we_waitons[wo].ndone = 1
    /\ we_last.emitter # None =>
          /\ we_last.raised = None
          /\ we_last.after = we_last.before - Cardinality(Notified)

\* C31: wait() returns True only when the wait on is done and False only
\* when a timeout was given, raises Interrupted only when interrupt() was
\* called, and an interrupt() that returned while the wait on was not done
\* is not lost: a thread blocked in wait() finds the event set, whether
\* interrupt() was called before, during or after the call of wait().
C31_WaitSeesDoneAndInterrupt ==
    /\ wt_obs.wait = "True" => is_done
    /\ wt_obs.wait = "False" => wt_obs.timeout # None
    /\ wt_obs.wait = Interrupted => wt_obs.interrupt # None
    /\ (/\ wt_pc[Interrupter] = "returned"
        /\ wt_obs.interrupt = "before done"
        /\ wt_obs.assigned = <<>>
        /\ wt_pc[Waiter] = "wait:124") => wt_waiting

\* C32: the outcome is None until done() is called, the outcome is assigned
\* at most once, by one done(), and it keeps the value first assigned,
\* with two threads calling done() and for a wait on re-created from a
\* bundle that holds an outcome.
C32_OutcomeSetOnce ==
    /\ Len(wt_obs.assigned) <= 1
    /\ wt_outcome = NoOutcome <=> wt_obs.assigned = <<>>
    /\ wt_obs.assigned # <<>> => wt_outcome = wt_obs.assigned[1]

\* The callables of the aggregator that it subscribes on its children
AggCallables == {EventPassthrough, AggEventOccurred}

\* The keys for which some listener of the set ls is subscribed on em
KeysOf(em, ls) ==
    {k \in DOMAIN sb_specific[em] : sb_specific[em][k] \cap ls # {}}
        \cup {k \in DOMAIN sb_wildcard[em] : sb_wildcard[em][k] \cap ls # {}}

\* C33: on an emitter on which only users have subscribed, num_listening()
\* equals the number of start_listening() calls made on it that no
\* stop_listening() call has undone, a listener that subscribed to the same
\* event twice being counted twice.
C33_NumListeningCountsCalls ==
    \A em \in Emitters :
        KeysOf(em, AggCallables) = {} =>
            num_listening(SubWorld, em) = TotalCalls(sb_calls, em)

\* The regex matches the whole string
RECURSIVE re_fullmatch(_, _)
re_fullmatch(regex, string) ==
    IF regex = <<>> THEN string = <<>>
    ELSE IF Head(regex).any
    THEN \E k \in Head(regex).min..Len(string) :
            re_fullmatch(Tail(regex), SubSeq(string, k + 1, Len(string)))
    ELSE /\ string # <<>>
         /\ Head(string) = Head(regex).ch
         /\ re_fullmatch(Tail(regex), Tail(string))

\* C34: an event is delivered to a user's listener only if the listener is
\* subscribed, on the emitter that calls it, to that very event or to a
\* pattern that the whole event string matches.
C34_WildcardMatchesWholeEvent ==
    \A i \in 1..Len(sb_last.delivered) :
        LET d == sb_last.delivered[i] IN
        d.listener \in UserListeners =>
            \E k \in KeysOf(d.emitter, {d.listener}) :
                IF contains_wildcard(k)
                THEN re_fullmatch(re_compile(k), d.event)
                ELSE k = d.event

\* C35: no callable of the aggregator is subscribed on an emitter that was
\* removed from it, a callable of the aggregator is subscribed on a child
\* only for what a listener of the aggregator still listens for, and an
\* event that occurs on a removed emitter is not delivered by the
\* aggregator.
C35_AggregatorLeavesChild ==
    /\ \A c \in sb_removed : KeysOf(c, AggCallables) = {}
    /\ \A i \in 1..Len(sb_children) :
          KeysOf(sb_children[i], AggCallables)
              \subseteq KeysOf(Aggregator, UserListeners)
    /\ sb_last.emitter \in sb_removed =>
          \A i \in 1..Len(sb_last.delivered) :
              sb_last.delivered[i].emitter # Aggregator

\* C36: when a task is removed from the loop while it is suspended on a
\* wait, with the future of the wait pending or done and the done-callback
\* of the task scheduled or not, the removal raises nothing, and afterwards
\* the task is never made to tick again and its done-callback raises
\* nothing in the loop.
C36_RemoveWhileSuspended ==
    \A t \in Tasks :
        rm_removed[t].removed =>
            /\ rm_removed[t].raised = None
            /\ ~InSeq(ticking, t)
            /\ t \notin inLoop
            /\ [task |-> t, exc |-> "AttributeError"] \in errors
                   => [task |-> t, exc |-> "AttributeError"]
                         \in rm_removed[t].errors

\* The functions of the process that the engine has called, in order
CallsOf(msgs) == SelectSeq(msgs, LAMBDA m : m[1] = "call")

\* C37: the serial engine calls do_run and then the continuation of each
\* wait on of the chain once and in the order of the chain, each after
\* on_wait for that wait on, and it makes no more passes of its loop than
\* the chain has wait ons, so that the run of a finite chain ends.
C37_EngineFollowsChain ==
    /\ \A i \in 1..Len(CallsOf(en_run.w.msgs)) :
          CallsOf(en_run.w.msgs)[i][2] = i - 1
    /\ en_run.pc = "polling" => en_run.polls < en_run.program.chain

\* C38: no callback given to add_done_callback is called twice, and once
\* the process has terminated, _terminate has returned and the
\* add_done_callback call has returned, the callback was called once.
C38_CallbackCalledOnce ==
    \A a \in Adders :
        /\ pf_invoked[a] <= 1
        /\ (pf_pc[a] = "returned" /\ pf_pc[Worker] = "returned")
              => pf_invoked[a] = 1

\* C39: at any time at most one call of proc.play per process is submitted
\* to the executor or running on one of its workers.
C39_OnePlayPerProcess ==
    \A p \in ManagedPids : pm_plays[p].submitted + pm_plays[p].running <= 1

\* C40: at any time at most one timer of the polling emitter is waiting to
\* call _poll, and poll() was never called while no listener was
\* subscribed.
C40_OneTimerChain ==
    /\ Cardinality({t \in 1..Len(pe_timers) : pe_timers[t] = "waiting"}) <= 1
    /\ ~pe_log.idle

====
